---- MODULE Spec2Model ----
(***************************************************************************)
(* ampack: the Amlogic burning-image container codec of src/src/image.rs.  *)
(* An Image (version, align, items) is encoded by try_write_file           *)
(* (ImageToWrite::try_from, append_item, finalize) into a file of bytes    *)
(* and decoded back by try_read_file.  Bytes are numbers 0..255, strings   *)
(* are sequences of bytes, files are sequences of bytes.                   *)
(***************************************************************************)
EXTENDS Integers, Sequences, FiniteSets, TLC

(* ----------------------------- bounds --------------------------------- *)

\* Most items of an input Image.
MaxItems == 4
\* Most records in the table of an input file given to the decoder.
MaxRecords == 3
\* Most bytes of the byte strings fed to the checksum, one longer known
\* string apart, and most update calls they are fed in.
MaxCrcLen == 3
MaxCalls == 3
\* How far the lengths of names go about the length of a name field.
MaxNameOver == 2

(* ------------------------- program constants -------------------------- *)

MAGIC == 666179926
FILE_TYPE_GENERIC == 0
FILE_TYPE_SPARSE == 254
ANDROID_SPARSE_IMAGE_MAGIC_BYTES == <<58, 255, 38, 237>>
SIZE_RAW_IMAGE_HEAD == 64
SIZE_ITEM_TYPE_V1 == 32
SIZE_ITEM_TYPE_V2 == 256
\* size_of the packed RawItemInfoVariableLength<LEN>: the fixed fields take
\* 4+4+8+8+8 bytes before the two names and 4+2+2+24 bytes after them.
SizeRawItemInfo(LEN) == 32 + 2 * LEN + 32
SIZE_RAW_ITEM_INFO_V1 == SizeRawItemInfo(SIZE_ITEM_TYPE_V1)
SIZE_RAW_ITEM_INFO_V2 == SizeRawItemInfo(SIZE_ITEM_TYPE_V2)
\* Length of a VERIFY payload, "sha1sum " followed by 40 hex digits.
SIZE_VERIFY == 48
\* Length of a Sha1sumByteArray.
SIZE_SHA1 == 20

(* ------------------------------ strings ------------------------------- *)

STR_DDR == <<68, 68, 82>>
STR_UBOOT == <<85, 66, 79, 79, 84>>
STR_DDR_ENC == <<68, 68, 82, 95, 69, 78, 67>>
STR_UBOOT_ENC == <<85, 66, 79, 79, 84, 95, 69, 78, 67>>
STR_USB == <<85, 83, 66>>
STR_PARTITION == <<80, 65, 82, 84, 73, 84, 73, 79, 78>>
STR_VERIFY == <<86, 69, 82, 73, 70, 89>>
STR_ENC_SUFFIX == <<95, 69, 78, 67>>
STR_SHA1SUM_PREFIX == <<115, 104, 97, 49, 115, 117, 109, 32>>
STR_boot == <<98, 111, 111, 116>>
STR_boot_b == <<98, 111, 111, 116, 95, 98>>
STR_meson1 == <<109, 101, 115, 111, 110, 49>>
STR_dtb == <<100, 116, 98>>

\* Option::None of a byte string (a Some is the non-empty string itself)
None == <<>>

Min(a, b) == IF a <= b THEN a ELSE b

\* slice.starts_with(prefix)
starts_with(s, prefix) ==
    /\ Len(s) >= Len(prefix)
    /\ \A i \in 1..Len(prefix) : s[i] = prefix[i]

\* str.ends_with(suffix)
ends_with(s, suffix) ==
    /\ Len(s) >= Len(suffix)
    /\ \A i \in 1..Len(suffix) : s[Len(s) - Len(suffix) + i] = suffix[i]

\* Ord for String (str::cmp): bytewise lexicographic, a proper prefix first.
\* "Less", "Equal" or "Greater".
RECURSIVE str_cmp(_, _)
str_cmp(a, b) ==
    IF a = <<>> /\ b = <<>> THEN "Equal"
    ELSE IF a = <<>> THEN "Less"
    ELSE IF b = <<>> THEN "Greater"
    ELSE IF Head(a) < Head(b) THEN "Less"
    ELSE IF Head(a) > Head(b) THEN "Greater"
    ELSE str_cmp(Tail(a), Tail(b))

Zeros(n) == [i \in 1..n |-> 0]

(* ----------------------- little-endian integers ----------------------- *)

RECURSIVE Pow256(_)
Pow256(k) == IF k = 0 THEN 1 ELSE 256 * Pow256(k - 1)

\* The n bytes of an unsigned integer of n bytes, least significant first
\* (the in-memory layout of the packed structs on the little-endian targets).
\* Every number of the model is below 2^31, so the bytes past the fourth
\* of a u64 are zero.
LeBytes(v, n) ==
    [i \in 1..n |-> IF i <= 4 THEN (v \div Pow256(i - 1)) % 256 ELSE 0]

RECURSIVE LeValue(_)
LeValue(bytes) ==
    IF bytes = <<>> THEN 0 ELSE Head(bytes) + 256 * LeValue(Tail(bytes))

\* file[off .. off+n) with off counted from 0
Slice(bytes, off, n) == SubSeq(bytes, off + 1, off + n)

(* ------------------------------ sha1sum ------------------------------- *)

\* Sha1::digest of the sha1 crate, an external primitive: stood for by a
\* 20-byte mixing function that tells apart the data this model hashes; the
\* codec only ever compares digests.
RECURSIVE Sha1Mix(_, _, _)
Sha1Mix(data, pos, salt) ==
    IF pos > Len(data) THEN 0
    ELSE (data[pos] * (pos + salt) + Sha1Mix(data, pos + 1, salt)) % 256

Sha1sum_from_data(data) ==
    [i \in 1..SIZE_SHA1 |-> (Sha1Mix(data, 1, i) + 7 * Len(data) + 13 * i) % 256]

\* "{:02x}" of one nibble: lowercase hexadecimal.
HexDigit(n) == IF n < 10 THEN 48 + n ELSE 87 + n

\* Display for Sha1sum: two lowercase hex digits per byte.
Sha1sum_Display(sum) ==
    [i \in 1..(2 * Len(sum)) |->
        IF i % 2 = 1 THEN HexDigit(sum[(i + 1) \div 2] \div 16)
        ELSE HexDigit(sum[i \div 2] % 16)]

\* hex crate's val(): the value of one hex digit, -1 for any other byte.
HexVal(c) ==
    IF c >= 48 /\ c <= 57 THEN c - 48
    ELSE IF c >= 97 /\ c <= 102 THEN c - 87
    ELSE IF c >= 65 /\ c <= 70 THEN c - 55
    ELSE -1

\* Sha1sum::from_hex: [u8; 20]::from_hex(slice); None stands for the
\* FromHexError (a wrong length or a byte that is no hex digit).
Sha1sum_from_hex(slice) ==
    IF Len(slice) # 2 * SIZE_SHA1 THEN None
    ELSE IF \E i \in 1..Len(slice) : HexVal(slice[i]) < 0 THEN None
    ELSE [i \in 1..SIZE_SHA1 |->
            16 * HexVal(slice[2 * i - 1]) + HexVal(slice[2 * i])]

(* --------------------------- raw layout ------------------------------- *)

ImageVersions == {"V1", "V2"}

\* TryFrom<RawImageVersion> for ImageVersion; "Invalid" stands for the
\* Err(InvalidVersion).
ImageVersion_try_from(value) ==
    IF value = 1 THEN "V1" ELSE IF value = 2 THEN "V2" ELSE "Invalid"

\* Into<RawImageVersion> for &ImageVersion
ImageVersion_into_raw(version) == IF version = "V1" THEN 1 ELSE 2

\* ImageVersion::size_raw_info
size_raw_info(version) ==
    IF version = "V1" THEN SIZE_RAW_ITEM_INFO_V1 ELSE SIZE_RAW_ITEM_INFO_V2

\* The LEN of RawItemInfoVariableLength<LEN> a version selects.
size_item_type(version) ==
    IF version = "V1" THEN SIZE_ITEM_TYPE_V1 ELSE SIZE_ITEM_TYPE_V2

\* RawImageHead::new
RawImageHead_new(version, item_align_size) ==
    [crc |-> <<0, 0, 0, 0>>, version |-> ImageVersion_into_raw(version),
     magic |-> MAGIC,
     image_size |-> 0, item_align_size |-> item_align_size, item_count |-> 0]

\* The 64 bytes of a packed RawImageHead.
RawImageHead_bytes(head) ==
    head.crc \o LeBytes(head.version, 4) \o LeBytes(head.magic, 4)
    \o LeBytes(head.image_size, 8) \o LeBytes(head.item_align_size, 4)
    \o LeBytes(head.item_count, 4) \o Zeros(36)

\* (buffer.as_ptr() as *const RawImageHead).read()
RawImageHead_read(buffer) ==
    [crc |-> Slice(buffer, 0, 4),
     version |-> LeValue(Slice(buffer, 4, 4)),
     magic |-> LeValue(Slice(buffer, 8, 4)),
     image_size |-> LeValue(Slice(buffer, 12, 8)),
     item_align_size |-> LeValue(Slice(buffer, 20, 4)),
     item_count |-> LeValue(Slice(buffer, 24, 4))]

\* bytes_fill_from_str on a zeroed dest of LEN bytes: the first
\* min(LEN - 1, len) bytes of src, the rest left zero.
bytes_fill_from_str(LEN, src) ==
    LET len == Min(LEN - 1, Len(src))
    IN  SubSeq(src, 1, len) \o Zeros(LEN - len)

\* The number of bytes before the first zero byte of a field holding one.
CStrLen(field, pos) ==
    IF \A i \in pos..Len(field) : field[i] # 0 THEN Len(field)
    ELSE (CHOOSE i \in pos..Len(field) :
              field[i] = 0 /\ \A j \in pos..(i - 1) : field[j] # 0) - 1

\* string_from_slice_u8_c_string on a field that holds a zero byte: the
\* bytes before the first zero (names here are ASCII, which to_string_lossy
\* leaves alone).
string_from_slice_u8_c_string(field) == SubSeq(field, 1, CStrLen(field, 1))

\* cstr_from_slice_u8_c_string: CStr::from_ptr on the first byte of the
\* field reads up to the first zero byte of the memory that starts there,
\* which is the field followed by whatever lies beyond it.
cstr_from_slice_u8_c_string(field, beyond) ==
    LET memory == field \o beyond \o <<0>>
    IN  SubSeq(memory, 1, CStrLen(memory, 1))

\* U+FFFD in UTF-8, what to_string_lossy puts for an invalid sequence.
REPLACEMENT_CHARACTER == <<239, 191, 189>>

\* The length of the UTF-8 sequence a lead byte announces, 0 for a byte
\* that cannot lead one.
Utf8Width(b) ==
    IF b < 128 THEN 1
    ELSE IF b >= 194 /\ b <= 223 THEN 2
    ELSE IF b >= 224 /\ b <= 239 THEN 3
    ELSE IF b >= 240 /\ b <= 244 THEN 4
    ELSE 0

\* bytes[pos + k - 1] may be the k-th byte of the sequence led by bytes[pos].
Utf8Continues(bytes, pos, k) ==
    /\ pos + k - 1 <= Len(bytes)
    /\ LET lead == bytes[pos]
           b == bytes[pos + k - 1]
       IN  IF k > 2 THEN b >= 128 /\ b <= 191
           ELSE IF lead = 224 THEN b >= 160 /\ b <= 191
           ELSE IF lead = 237 THEN b >= 128 /\ b <= 159
           ELSE IF lead = 240 THEN b >= 144 /\ b <= 191
           ELSE IF lead = 244 THEN b >= 128 /\ b <= 143
           ELSE b >= 128 /\ b <= 191

\* How many bytes of the sequence of width w at pos are well formed, the
\* first k - 1 being so.
RECURSIVE Utf8ValidLen(_, _, _, _)
Utf8ValidLen(bytes, pos, k, w) ==
    IF k > w THEN w
    ELSE IF Utf8Continues(bytes, pos, k)
    THEN Utf8ValidLen(bytes, pos, k + 1, w)
    ELSE k - 1

\* bytes[pos] belongs to the sequence of a lead byte before it.
Utf8Continuation(bytes, pos) ==
    \E lead \in (pos - 3)..(pos - 1) :
        /\ lead >= 1
        /\ pos - lead < Utf8Width(bytes[lead])
        /\ \A k \in 2..(pos - lead + 1) : Utf8Continues(bytes, lead, k)

\* What to_string_lossy puts for the part that starts at pos: nothing for
\* a byte that continues a sequence, the sequence when it is well formed,
\* U+FFFD for an ill-formed part.
Utf8Part(bytes, pos) ==
    IF Utf8Continuation(bytes, pos) THEN <<>>
    ELSE LET w == Utf8Width(bytes[pos])
         IN  IF w # 0 /\ Utf8ValidLen(bytes, pos, 2, w) = w
             THEN SubSeq(bytes, pos, pos + w - 1)
             ELSE REPLACEMENT_CHARACTER

\* The parts of bytes[from..to], one after the other.
RECURSIVE to_string_lossy_from(_, _, _)
to_string_lossy_from(bytes, from, to) ==
    IF from > to THEN <<>>
    ELSE IF from = to THEN Utf8Part(bytes, from)
    ELSE LET mid == (from + to) \div 2
         IN  to_string_lossy_from(bytes, from, mid)
                 \o to_string_lossy_from(bytes, mid + 1, to)

\* CStr::to_string_lossy: well-formed sequences are kept, every maximal
\* ill-formed part becomes one U+FFFD.
to_string_lossy(bytes) == to_string_lossy_from(bytes, 1, Len(bytes))

\* string_from_slice_u8_c_string on a field in memory: the String of the
\* C string that starts at the field's first byte.
string_from_memory(field, beyond) ==
    to_string_lossy(cstr_from_slice_u8_c_string(field, beyond))

\* Into<RawItemInfoVariableLength<LEN>> for &RawItemInfo, as the bytes of
\* the packed struct.
RawItemInfo_bytes(info, LEN) ==
    LeBytes(info.item_id, 4) \o LeBytes(info.file_type, 4)
    \o LeBytes(info.current_offset_in_item, 8)
    \o LeBytes(info.offset_in_image, 8) \o LeBytes(info.item_size, 8)
    \o bytes_fill_from_str(LEN, info.item_main_type)
    \o bytes_fill_from_str(LEN, info.item_sub_type)
    \o LeBytes(info.verify, 4) \o LeBytes(info.is_backup_item, 2)
    \o LeBytes(info.backup_item_id, 2) \o Zeros(24)

\* From<RawItemInfoVariableLength<LEN>> for RawItemInfo, from the bytes of
\* the packed struct.
RawItemInfo_from(buffer, LEN) ==
    [item_id |-> LeValue(Slice(buffer, 0, 4)),
     file_type |-> LeValue(Slice(buffer, 4, 4)),
     current_offset_in_item |-> LeValue(Slice(buffer, 8, 8)),
     offset_in_image |-> LeValue(Slice(buffer, 16, 8)),
     item_size |-> LeValue(Slice(buffer, 24, 8)),
     item_main_type |-> string_from_slice_u8_c_string(Slice(buffer, 32, LEN)),
     item_sub_type |->
         string_from_slice_u8_c_string(Slice(buffer, 32 + LEN, LEN)),
     verify |-> LeValue(Slice(buffer, 32 + 2 * LEN, 4)),
     is_backup_item |-> LeValue(Slice(buffer, 36 + 2 * LEN, 2)),
     backup_item_id |-> LeValue(Slice(buffer, 38 + 2 * LEN, 2))]

(* ------------------------------ encoder ------------------------------- *)

\* struct Item
Item(stem, extension, data, sha1sum) ==
    [data |-> data, extension |-> extension, stem |-> stem,
     sha1sum |-> sha1sum]

\* A comparison by extension, then stem.
sort_ref_items_by_extension(some, other) ==
    LET order_extension == str_cmp(some.extension, other.extension)
    IN  IF order_extension = "Equal"
        THEN str_cmp(some.stem, other.stem)
        ELSE order_extension

\* sort_ref_items_by_name
sort_ref_items_by_name(some, other) ==
    LET order_stem == str_cmp(some.stem, other.stem)
    IN  IF order_stem = "Equal"
        THEN str_cmp(some.extension, other.extension)
        ELSE order_stem

\* Vec::sort_by, a stable sort: insertion of each element after the last
\* element that is not greater than it.
RECURSIVE sort_insert(_, _)
sort_insert(sorted, x) ==
    IF sorted = <<>> THEN <<x>>
    ELSE IF sort_ref_items_by_name(sorted[Len(sorted)], x) = "Greater"
         THEN Append(sort_insert(SubSeq(sorted, 1, Len(sorted) - 1), x),
                     sorted[Len(sorted)])
         ELSE Append(sorted, x)

RECURSIVE sort_by_name(_)
sort_by_name(items) ==
    IF items = <<>> THEN <<>>
    ELSE sort_insert(sort_by_name(SubSeq(items, 1, Len(items) - 1)),
                     items[Len(items)])

(* ------------------------------ results ------------------------------- *)

Ok == [type |-> "Ok"]
Pending == [type |-> "Pending"]
\* Error::ImageError(ImageError::...)
ImageError(kind) == [type |-> "ImageError", kind |-> kind]
ImageErrorItem(kind, stem, extension) ==
    [type |-> "ImageError", kind |-> kind, stem |-> stem,
     extension |-> extension]
\* Error::FromHexError and Error::IOError
FromHexError == [type |-> "FromHexError"]
IOError == [type |-> "IOError"]
\* a panic of the process (arithmetic on a zero divisor)
Panic == [type |-> "Panic"]

(* --------------------------- ImageToWrite ----------------------------- *)

\* The initial ImageToWrite of try_from.
ImageToWrite_new(image) ==
    [head |-> RawImageHead_new(image.version, image.align),
     infos |-> <<>>, sha1sums |-> <<>>,
     data_head_infos |-> <<>>, data_body |-> <<>>]

\* The candidate test of find_backup for the record of table index id + 1.
is_backup_candidate(itw, id, sha1sum) ==
    /\ sha1sum = itw.sha1sums[id + 1]
    /\ ~ (/\ itw.infos[id + 1].item_main_type = STR_USB
          /\ ends_with(itw.infos[id + 1].item_sub_type, STR_ENC_SUFFIX))

\* find_backup answering the latest record with the digest.
find_backup_latest(itw, sha1sum) ==
    LET n == Min(Len(itw.sha1sums), Len(itw.infos))
        hits == {id \in 0..(n - 1) : is_backup_candidate(itw, id, sha1sum)}
    IN  IF hits = {} THEN <<0, 0, 0>>
        ELSE LET id == CHOOSE h \in hits : \A g \in hits : h >= g
             IN  <<1, id % 65536, itw.infos[id + 1].offset_in_image>>

\* ImageToWrite::find_backup: (is_backup_item, backup_item_id, offset)
find_backup(itw, sha1sum) ==
    LET n == Min(Len(itw.sha1sums), Len(itw.infos))
        hits == {id \in 0..(n - 1) : is_backup_candidate(itw, id, sha1sum)}
    IN  IF hits = {} THEN <<0, 0, 0>>
        ELSE LET id == CHOOSE h \in hits : \A g \in hits : h <= g
             IN  <<1, id % 65536, itw.infos[id + 1].offset_in_image>>

\* The next multiple of align_size above len, even when len is one.
align_up_past(len, align_size) ==
    ((len \div align_size) + 1) * align_size

\* The offset append_item stores a non-backup item at.
align_up(len, align_size) ==
    ((len + align_size - 1) \div align_size) * align_size

\* A VERIFY record that addresses the bytes after the payload.
verify_info_past(itw_infos, item, offset, is_backup_item, backup_item_id) ==
    [item_id |-> Len(itw_infos),
     file_type |-> 0,
     current_offset_in_item |-> 0,
     offset_in_image |-> offset + SIZE_VERIFY,
     item_size |-> SIZE_VERIFY,
     item_main_type |-> STR_VERIFY,
     item_sub_type |-> item.stem,
     verify |-> 0,
     is_backup_item |-> is_backup_item,
     backup_item_id |->
         IF is_backup_item = 0 THEN 0 ELSE backup_item_id + 1]

\* The VERIFY record append_item pushes after a PARTITION item.
verify_info(itw_infos, item, offset, is_backup_item, backup_item_id) ==
    [item_id |-> Len(itw_infos),
     file_type |-> 0,
     current_offset_in_item |-> 0,
     offset_in_image |-> offset,
     item_size |-> SIZE_VERIFY,
     item_main_type |-> STR_VERIFY,
     item_sub_type |-> item.stem,
     verify |-> 0,
     is_backup_item |-> is_backup_item,
     backup_item_id |->
         IF is_backup_item = 0 THEN 0 ELSE backup_item_id + 1]

\* ImageToWrite::append_item: the result, the ImageToWrite afterwards and
\* what the call did to the body.
append_item(itw, item) ==
    IF item.sha1sum = None
    THEN [result |-> ImageError("IllegalVerify"), itw |-> itw,
          did |-> [data |-> FALSE, verify |-> FALSE]]
    ELSE
    LET sha1sum == item.sha1sum
        found == find_backup(itw, sha1sum)
        is_backup_item == found[1]
        backup_item_id == found[2]
        align_size == itw.head.item_align_size
    IN  IF is_backup_item = 0 /\ align_size = 0
        THEN [result |-> Panic, itw |-> itw,
              did |-> [data |-> FALSE, verify |-> FALSE]]
        ELSE
        LET offset == IF is_backup_item = 0
                      THEN align_up(Len(itw.data_body), align_size)
                      ELSE found[3]
            body1 == IF is_backup_item = 0
                     THEN itw.data_body
                          \o Zeros(offset - Len(itw.data_body))
                          \o item.data
                     ELSE itw.data_body
            info == [item_id |-> Len(itw.infos),
                     file_type |->
                         IF starts_with(item.data,
                                        ANDROID_SPARSE_IMAGE_MAGIC_BYTES)
                         THEN FILE_TYPE_SPARSE ELSE FILE_TYPE_GENERIC,
                     current_offset_in_item |-> 0,
                     offset_in_image |-> offset,
                     item_size |-> Len(item.data),
                     item_main_type |-> item.extension,
                     item_sub_type |-> item.stem,
                     verify |-> IF item.extension = STR_PARTITION
                                THEN 1 ELSE 0,
                     is_backup_item |-> is_backup_item,
                     backup_item_id |-> backup_item_id]
            infos1 == Append(itw.infos, info)
            sha1sums1 == Append(itw.sha1sums, sha1sum)
            itw1 == [itw EXCEPT !.data_body = body1, !.infos = infos1,
                                !.sha1sums = sha1sums1,
                                !.head.item_count = @ + 1]
            offset2 == offset + Len(item.data)
        IN  IF item.extension # STR_PARTITION
            THEN [result |-> Ok, itw |-> itw1,
                  did |-> [data |-> is_backup_item = 0, verify |-> FALSE]]
            ELSE
            LET bytes == STR_SHA1SUM_PREFIX \o Sha1sum_Display(sha1sum)
            IN  IF Len(bytes) # SIZE_VERIFY
                THEN [result |-> [type |-> "ImageError",
                                  kind |-> "SizeMismatch",
                                  exptected |-> SIZE_VERIFY,
                                  actual |-> Len(bytes)],
                      itw |-> itw1,
                      did |-> [data |-> is_backup_item = 0,
                               verify |-> FALSE]]
                ELSE [result |-> Ok,
                      itw |-> [itw1 EXCEPT
                          !.data_body = @ \o bytes,
                          !.sha1sums = Append(@, Sha1sum_from_data(bytes)),
                          !.infos = Append(@, verify_info(infos1, item,
                                      offset2, is_backup_item,
                                      backup_item_id)),
                          !.head.item_count = @ + 1],
                      did |-> [data |-> is_backup_item = 0,
                               verify |-> TRUE]]

\* finalize leaving every offset_in_image as append_item set it.
finalize_without_shift(itw, version) ==
    LET size_info == size_raw_info(version)
        offset == SIZE_RAW_IMAGE_HEAD + size_info * itw.head.item_count
        head1 == [itw.head EXCEPT
                     !.image_size = Len(itw.data_body) + offset,
                     !.version = ImageVersion_into_raw(version)]
        LEN == size_item_type(version)
        RECURSIVE raw_infos(_)
        raw_infos(i) ==
            IF i > Len(itw.infos) THEN <<>>
            ELSE RawItemInfo_bytes(itw.infos[i], LEN) \o raw_infos(i + 1)
        data1 == RawImageHead_bytes(head1) \o raw_infos(1)
        itw1 == [itw EXCEPT !.head = head1, !.data_head_infos = data1]
    IN  IF offset # Len(data1)
        THEN [result |-> [type |-> "ImageError", kind |-> "SizeMismatch",
                          exptected |-> offset, actual |-> Len(data1)],
              itw |-> itw1]
        ELSE [result |-> Ok, itw |-> itw1]

\* ImageToWrite::finalize
finalize(itw, version) ==
    LET size_info == size_raw_info(version)
        offset == SIZE_RAW_IMAGE_HEAD + size_info * itw.head.item_count
        head1 == [itw.head EXCEPT
                     !.image_size = Len(itw.data_body) + offset,
                     !.version = ImageVersion_into_raw(version)]
        infos1 == [i \in 1..Len(itw.infos) |->
                     [itw.infos[i] EXCEPT !.offset_in_image = @ + offset]]
        LEN == size_item_type(version)
        RECURSIVE raw_infos(_)
        raw_infos(i) ==
            IF i > Len(infos1) THEN <<>>
            ELSE RawItemInfo_bytes(infos1[i], LEN) \o raw_infos(i + 1)
        data1 == RawImageHead_bytes(head1) \o raw_infos(1)
        itw1 == [itw EXCEPT !.head = head1, !.infos = infos1,
                            !.data_head_infos = data1]
    IN  IF offset # Len(data1)
        THEN [result |-> [type |-> "ImageError", kind |-> "SizeMismatch",
                          exptected |-> offset, actual |-> Len(data1)],
              itw |-> itw1]
        ELSE [result |-> Ok, itw |-> itw1]

\* The classification loop keeping the last of two items of a reserved
\* name.
RECURSIVE classify_keeping_last(_, _, _)
classify_keeping_last(items, i, acc) ==
    IF i > Len(items) THEN acc
    ELSE
    LET item == items[i]
    IN  IF item.extension = STR_USB
        THEN LET slot == IF item.stem = STR_DDR THEN "ddr_usb"
                         ELSE IF item.stem = STR_UBOOT THEN "uboot_usb"
                         ELSE IF item.stem = STR_DDR_ENC THEN "ddr_enc_usb"
                         ELSE IF item.stem = STR_UBOOT_ENC
                              THEN "uboot_enc_usb"
                         ELSE "unexpected"
             IN  IF slot = "unexpected"
                 THEN [acc EXCEPT !.result =
                          ImageErrorItem("UnexpectedItem", item.stem, STR_USB)]
                 ELSE classify_keeping_last(items, i + 1,
                          [acc EXCEPT ![slot] = <<item>>])
        ELSE classify_keeping_last(items, i + 1,
                 [acc EXCEPT !.generic_items = Append(@, item)])

\* The classification loop of ImageToWrite::try_from over image.items
\* from index i on: the four USB slots and the generic items, or the error
\* of the first offending item.
RECURSIVE classify(_, _, _)
classify(items, i, acc) ==
    IF i > Len(items) THEN acc
    ELSE
    LET item == items[i]
    IN  IF item.extension = STR_USB
        THEN LET slot == IF item.stem = STR_DDR THEN "ddr_usb"
                         ELSE IF item.stem = STR_UBOOT THEN "uboot_usb"
                         ELSE IF item.stem = STR_DDR_ENC THEN "ddr_enc_usb"
                         ELSE IF item.stem = STR_UBOOT_ENC
                              THEN "uboot_enc_usb"
                         ELSE "unexpected"
             IN  IF slot = "unexpected"
                 THEN [acc EXCEPT !.result =
                          ImageErrorItem("UnexpectedItem", item.stem, STR_USB)]
                 ELSE IF acc[slot] # <<>>
                 THEN [acc EXCEPT !.result =
                          ImageErrorItem("DuplicatedItem", item.stem, STR_USB)]
                 ELSE classify(items, i + 1, [acc EXCEPT ![slot] = <<item>>])
        ELSE classify(items, i + 1,
                 [acc EXCEPT !.generic_items = Append(@, item)])

\* The checks of try_from looking for UBOOT.USB before DDR.USB.
emission_order_uboot_first(image) ==
    LET c == classify(image.items, 1,
                 [result |-> Ok, ddr_usb |-> <<>>, uboot_usb |-> <<>>,
                  ddr_enc_usb |-> <<>>, uboot_enc_usb |-> <<>>,
                  generic_items |-> <<>>])
    IN  IF c.result # Ok THEN [result |-> c.result, items |-> <<>>]
        ELSE IF c.uboot_usb = <<>>
        THEN [result |-> ImageErrorItem("MissingItem", STR_UBOOT, STR_USB),
              items |-> <<>>]
        ELSE IF c.ddr_usb = <<>>
        THEN [result |-> ImageErrorItem("MissingItem", STR_DDR, STR_USB),
              items |-> <<>>]
        ELSE [result |-> Ok,
              items |-> c.ddr_usb \o c.ddr_enc_usb \o c.uboot_usb
                        \o c.uboot_enc_usb \o sort_by_name(c.generic_items)]

\* ImageToWrite::try_from up to the first append_item: the items in the
\* order they will be appended, or the error returned before any append.
\* An Option<&Item> is the empty or the one-element sequence.
emission_order(image) ==
    LET c == classify(image.items, 1,
                 [result |-> Ok, ddr_usb |-> <<>>, uboot_usb |-> <<>>,
                  ddr_enc_usb |-> <<>>, uboot_enc_usb |-> <<>>,
                  generic_items |-> <<>>])
    IN  IF c.result # Ok THEN [result |-> c.result, items |-> <<>>]
        ELSE IF c.ddr_usb = <<>>
        THEN [result |-> ImageErrorItem("MissingItem", STR_DDR, STR_USB),
              items |-> <<>>]
        ELSE IF c.uboot_usb = <<>>
        THEN [result |-> ImageErrorItem("MissingItem", STR_UBOOT, STR_USB),
              items |-> <<>>]
        ELSE [result |-> Ok,
              items |-> c.ddr_usb \o c.ddr_enc_usb \o c.uboot_usb
                        \o c.uboot_enc_usb \o sort_by_name(c.generic_items)]

(* ------------------------------ decoder ------------------------------- *)

\* file.read_exact of n bytes at offset: possible only inside the file.
can_read(f, offset, n) == offset + n <= Len(f)

\* The locals of try_read_file before its loop.
Decoder_new(header, version) ==
    [header |-> header, version |-> version, item_id |-> 0,
     items |-> <<>>, need_verify |-> <<>>, last |-> <<>>]

\* The offset of the record after the one of index item_id.
info_offset_of_next(size_info, item_id) ==
    SIZE_RAW_IMAGE_HEAD + size_info * (item_id + 1)

\* The offset try_read_file seeks to for the record of index item_id.
info_offset(size_info, item_id) == SIZE_RAW_IMAGE_HEAD + size_info * item_id

\* try_read_file up to its loop: the header checks.
read_header(f) ==
    IF ~ can_read(f, 0, SIZE_RAW_IMAGE_HEAD)
    THEN [result |-> IOError, dec |-> <<>>]
    ELSE
    LET header == RawImageHead_read(Slice(f, 0, SIZE_RAW_IMAGE_HEAD))
    IN  IF header.magic # MAGIC
        THEN [result |-> [type |-> "ImageError", kind |-> "InvalidMagic",
                          magic |-> header.magic],
              dec |-> <<>>]
        ELSE
        LET version == ImageVersion_try_from(header.version)
        IN  IF version = "Invalid"
            THEN [result |-> [type |-> "ImageError",
                              kind |-> "InvalidVersion",
                              version |-> header.version],
                  dec |-> <<>>]
            ELSE [result |-> Ok, dec |-> Decoder_new(header, version)]

\* The branch checking the payload before the names.
read_verify_payload_first(dec, item_info, data) ==
    LET item_need_verify == dec.need_verify[1]
    IN  IF ~ (/\ item_info.item_size = SIZE_VERIFY
              /\ starts_with(data, STR_SHA1SUM_PREFIX)
              /\ item_info.verify = 0)
        THEN [result |-> ImageError("IllegalVerify"), dec |-> dec]
        ELSE IF item_info.item_sub_type # item_need_verify.stem
        THEN [result |-> ImageError("UnmatchedVerify"), dec |-> dec]
        ELSE IF item_info.item_main_type # STR_VERIFY
        THEN [result |-> ImageError("UnmatchedVerify"), dec |-> dec]
        ELSE
        LET sha1sum == Sha1sum_from_hex(Slice(data, 8, 40))
        IN  IF sha1sum = None
            THEN [result |-> FromHexError, dec |-> dec]
            ELSE [result |-> Ok,
                  dec |-> [dec EXCEPT
                      !.items = Append(@, [item_need_verify EXCEPT
                                              !.sha1sum = sha1sum]),
                      !.need_verify = <<>>]]

\* The branch reporting digits that are not hex as IllegalVerify.
read_verify_hex_as_illegal(dec, item_info, data) ==
    LET item_need_verify == dec.need_verify[1]
    IN  IF item_info.item_sub_type # item_need_verify.stem
        THEN [result |-> ImageError("UnmatchedVerify"), dec |-> dec]
        ELSE IF item_info.item_main_type # STR_VERIFY
        THEN [result |-> ImageError("UnmatchedVerify"), dec |-> dec]
        ELSE IF ~ (/\ item_info.item_size = SIZE_VERIFY
                   /\ starts_with(data, STR_SHA1SUM_PREFIX)
                   /\ item_info.verify = 0)
        THEN [result |-> ImageError("IllegalVerify"), dec |-> dec]
        ELSE
        LET sha1sum == Sha1sum_from_hex(Slice(data, 8, 40))
        IN  IF sha1sum = None
            THEN [result |-> ImageError("IllegalVerify"), dec |-> dec]
            ELSE [result |-> Ok,
                  dec |-> [dec EXCEPT
                      !.items = Append(@, [item_need_verify EXCEPT
                                              !.sha1sum = sha1sum]),
                      !.need_verify = <<>>]]

\* The branch of the loop body taken while an item awaits its VERIFY.
read_verify(dec, item_info, data) ==
    LET item_need_verify == dec.need_verify[1]
    IN  IF item_info.item_sub_type # item_need_verify.stem
        THEN [result |-> ImageError("UnmatchedVerify"), dec |-> dec]
        ELSE IF item_info.item_main_type # STR_VERIFY
        THEN [result |-> ImageError("UnmatchedVerify"), dec |-> dec]
        ELSE IF ~ (/\ item_info.item_size = SIZE_VERIFY
                   /\ starts_with(data, STR_SHA1SUM_PREFIX)
                   /\ item_info.verify = 0)
        THEN [result |-> ImageError("IllegalVerify"), dec |-> dec]
        ELSE
        LET sha1sum == Sha1sum_from_hex(Slice(data, 8, 40))
        IN  IF sha1sum = None
            THEN [result |-> FromHexError, dec |-> dec]
            ELSE [result |-> Ok,
                  dec |-> [dec EXCEPT
                      !.items = Append(@, [item_need_verify EXCEPT
                                              !.sha1sum = sha1sum]),
                      !.need_verify = <<>>]]

\* The branch choosing by the verify flag alone.
read_item_by_verify_flag(dec, item_info, data) ==
    LET item == Item(item_info.item_sub_type, item_info.item_main_type,
                     data, None)
    IN  IF item_info.verify = 0
        THEN [result |-> Ok, dec |-> [dec EXCEPT !.items = Append(@, item)]]
        ELSE [result |-> Ok, dec |-> [dec EXCEPT !.need_verify = <<item>>]]

\* The branch of the loop body taken while no item awaits its VERIFY.
read_item(dec, item_info, data) ==
    LET item == Item(item_info.item_sub_type, item_info.item_main_type,
                     data, None)
    IN  IF item.extension = STR_PARTITION
        THEN IF item_info.verify = 0
             THEN [result |-> ImageError("UnmatchedVerify"), dec |-> dec]
             ELSE [result |-> Ok, dec |-> [dec EXCEPT !.need_verify = <<item>>]]
        ELSE IF item_info.verify # 0
             THEN [result |-> ImageError("IllegalVerify"), dec |-> dec]
             ELSE [result |-> Ok,
                   dec |-> [dec EXCEPT !.items = Append(@, item)]]

\* One turn of the loop of try_read_file, for the record of index
\* dec.item_id.  dec.last keeps what the turn met, if it read a record: the
\* index of the record, where and in what size it was read, the record,
\* whether its data could be read, the item that was pending, how many
\* items were emitted before, and how the turn ended.
read_record(f, dec) ==
    LET size_info == size_raw_info(dec.version)
        at == info_offset(size_info, dec.item_id)
    IN  IF ~ can_read(f, at, size_info)
        THEN [result |-> IOError, dec |-> [dec EXCEPT !.last = <<>>]]
        ELSE
        LET item_info == RawItemInfo_from(Slice(f, at, size_info),
                                          size_item_type(dec.version))
            readable == can_read(f, item_info.offset_in_image,
                                 item_info.item_size)
            data == Slice(f, item_info.offset_in_image, item_info.item_size)
            r == IF ~ readable THEN [result |-> IOError, dec |-> dec]
                 ELSE IF dec.need_verify # <<>>
                 THEN read_verify(dec, item_info, data)
                 ELSE read_item(dec, item_info, data)
            seen == <<[index |-> dec.item_id, at |-> at, size |-> size_info,
                       info |-> item_info, readable |-> readable,
                       pending |-> dec.need_verify,
                       emitted |-> Len(dec.items), result |-> r.result]>>
        IN  [result |-> r.result,
             dec |-> [r.dec EXCEPT !.last = seen,
                          !.item_id = IF r.result = Ok THEN @ + 1 ELSE @]]

\* try_read_file returning the items whether or not one is pending.
read_finish_ignoring_pending(dec) ==
    [result |-> Ok,
     image |-> <<[version |-> dec.version,
                  align |-> dec.header.item_align_size,
                  items |-> dec.items]>>]

\* try_read_file after its loop.
read_finish(dec) ==
    IF dec.need_verify # <<>>
    THEN [result |-> ImageError("UnmatchedVerify"), image |-> <<>>]
    ELSE [result |-> Ok,
          image |-> <<[version |-> dec.version,
                       align |-> dec.header.item_align_size,
                       items |-> dec.items]>>]

(* ------------------------------- crc32 -------------------------------- *)

\* A u32 of the checksum is kept as its four bytes, least significant
\* first: the values pass 2^31.

RECURSIVE BitXor(_, _, _)
BitXor(a, b, bits) ==
    IF bits = 0 THEN 0
    ELSE ((a + b) % 2) + 2 * BitXor(a \div 2, b \div 2, bits - 1)

\* ^ on two u8
Xor8 == [a \in 0..255 |-> [b \in 0..255 |-> BitXor(a, b, 8)]]

\* ^ on two u32
Xor32(a, b) ==
    <<Xor8[a[1]][b[1]], Xor8[a[2]][b[2]], Xor8[a[3]][b[3]], Xor8[a[4]][b[4]]>>

\* >> 1 on a u32
Shr1(w) ==
    <<(w[1] \div 2) + (w[2] % 2) * 128, (w[2] \div 2) + (w[3] % 2) * 128,
      (w[3] \div 2) + (w[4] % 2) * 128, w[4] \div 2>>

\* >> 8 on a u32
Shr8(w) == <<w[2], w[3], w[4], 0>>

\* 0xedb88320
CRC32_POLY == <<32, 131, 184, 237>>

\* The inner loop of Crc32Table::default for one table entry.
RECURSIVE crc32_table_entry(_, _)
crc32_table_entry(byte, rounds) ==
    IF rounds = 0 THEN byte
    ELSE crc32_table_entry(
             IF byte[1] % 2 = 0 THEN Shr1(byte)
             ELSE Xor32(Shr1(byte), CRC32_POLY),
             rounds - 1)

\* Crc32Table::default
Crc32Table == [id \in 0..255 |-> crc32_table_entry(<<id, 0, 0, 0>>, 8)]

\* The step without the shift of the old value.
crc32_step_unshifted(value, byte) ==
    LET lookup_id == Xor8[value[1]][byte]
        lookup_value == Crc32Table[lookup_id]
    IN  Xor32(lookup_value, value)

\* One byte of Crc32Hasher::update / udpate_with_bar.
crc32_step(value, byte) ==
    LET lookup_id == Xor8[value[1]][byte]
        lookup_value == Crc32Table[lookup_id]
    IN  Xor32(lookup_value, Shr8(value))

\* Crc32Hasher::update over data[lo..hi] (1-based, inclusive), halving the
\* range so that the evaluation stays shallow.
RECURSIVE crc32_update(_, _, _, _)
crc32_update(value, data, lo, hi) ==
    IF lo > hi THEN value
    ELSE IF lo = hi THEN crc32_step(value, data[lo])
    ELSE LET mid == (lo + hi) \div 2
             left == crc32_update(value, data, lo, mid)
         IN  IF Len(left) = 4 THEN crc32_update(left, data, mid + 1, hi)
             ELSE left

\* The chunk size of udpate_with_bar, 0x100000
CRC32_CHUNK == 1048576

\* Crc32Hasher::udpate_with_bar over data[lo..hi]: chunk after chunk.
RECURSIVE crc32_udpate_with_bar(_, _, _, _)
crc32_udpate_with_bar(value, data, lo, hi) ==
    IF lo > hi THEN value
    ELSE crc32_udpate_with_bar(
             crc32_update(value, data, lo, Min(hi, lo + CRC32_CHUNK - 1)),
             data, lo + CRC32_CHUNK, hi)

\* Crc32Hasher::new().value, 0xffffffff
CRC32_INIT == <<255, 255, 255, 255>>

\* Crc32Hasher::from_reader on a reader that gives data and then ends:
\* every read's bytes are fed to update in order.
from_reader(data) == crc32_update(CRC32_INIT, data, 1, Len(data))

\* Crc32Hasher::try_hash_image_file on a file of these bytes: the value of
\* the hasher returned.
try_hash_image_file(bytes) == from_reader(SubSeq(bytes, 5, Len(bytes)))

\* The checksum taken over all of data_head_infos, then data_body.
crc32_of_image_from_start(data_head_infos, data_body) ==
    crc32_update(
        crc32_update(CRC32_INIT, data_head_infos, 1, Len(data_head_infos)),
        data_body, 1, Len(data_body))

\* The checksum try_from stores: over data_head_infos[4..] then data_body.
crc32_of_image(data_head_infos, data_body) ==
    crc32_update(
        crc32_update(CRC32_INIT, data_head_infos, 5, Len(data_head_infos)),
        data_body, 1, Len(data_body))

(* ------------------------------- inputs ------------------------------- *)

DATA_A == <<1, 2, 3, 4, 5>>
DATA_B == <<9, 8, 7, 6, 5>>
DATA_P == <<16, 15, 14, 13, 12, 11, 10, 9, 8, 7, 6, 5, 4, 3, 2, 1>>
DATA_S == <<58, 255, 38, 237, 1, 0>>

STR_aml_sdc_burn == <<97, 109, 108, 95, 115, 100, 99, 95, 98, 117, 114, 110>>
STR_ini == <<105, 110, 105>>

\* An item carrying the digest of its own data, as fill_verify leaves it.
Filled(stem, extension, data) ==
    Item(stem, extension, data, Sha1sum_from_data(data))

\* "sha1sum " and the 40 hex digits of the digest of data
verify_payload(data) ==
    STR_SHA1SUM_PREFIX \o Sha1sum_Display(Sha1sum_from_data(data))

\* The items input Images are made of, in the order try_read_dir and a
\* decode of a packed image give them: DDR.USB, DDR_ENC.USB, UBOOT.USB,
\* UBOOT_ENC.USB, then by name.
ItemPool ==
    << Filled(STR_DDR, STR_USB, DATA_A),
       Filled(STR_DDR_ENC, STR_USB, DATA_P),
       Filled(STR_UBOOT, STR_USB, DATA_B),
       Filled(STR_UBOOT, STR_USB, DATA_P),
       Filled(STR_UBOOT_ENC, STR_USB, DATA_B),
       Filled(STR_aml_sdc_burn, STR_ini, DATA_P),
       Filled(STR_boot, STR_PARTITION, DATA_P),
       Item(STR_boot, STR_PARTITION, DATA_P, None),
       Filled(STR_boot_b, STR_PARTITION, DATA_P),
       Filled(STR_boot_b, STR_PARTITION, DATA_A),
       Filled(STR_meson1, STR_dtb, DATA_S),
       Filled(STR_meson1, STR_dtb, verify_payload(DATA_A)) >>

\* The subsequences of at most n elements of pool[from..].
RECURSIVE SubSeqsUpTo(_, _, _)
SubSeqsUpTo(pool, from, n) ==
    IF from > Len(pool) \/ n = 0 THEN {<<>>}
    ELSE SubSeqsUpTo(pool, from + 1, n)
         \cup {<<pool[from]>> \o q : q \in SubSeqsUpTo(pool, from + 1, n - 1)}

InputImages ==
    [version : ImageVersions, align : {4, 8},
     items : SubSeqsUpTo(ItemPool, 1, MaxItems)]

(* ---------------------------- input files --------------------------- *)

\* A record of an input file's table and its data.
Rec(main, sub, verify, data) ==
    [item_main_type |-> main, item_sub_type |-> sub, verify |-> verify,
     data |-> data]

\* The records the tables of input files are made of.
RecPool ==
    { Rec(STR_PARTITION, STR_boot, 1, DATA_P),
      Rec(STR_PARTITION, STR_boot, 0, DATA_P),
      Rec(STR_VERIFY, STR_boot, 0, verify_payload(DATA_P)),
      Rec(STR_VERIFY, STR_boot, 1, verify_payload(DATA_P)),
      Rec(STR_VERIFY, STR_boot, 0,
          SubSeq(verify_payload(DATA_P), 1, SIZE_VERIFY - 2) \o <<120, 121>>),
      Rec(STR_VERIFY, STR_boot, 0,
          <<83>> \o SubSeq(verify_payload(DATA_P), 2, SIZE_VERIFY)),
      Rec(STR_VERIFY, STR_boot, 0,
          SubSeq(verify_payload(DATA_P), 1, SIZE_VERIFY - 1)),
      Rec(STR_VERIFY, STR_boot_b, 0, verify_payload(DATA_P)),
      Rec(STR_dtb, STR_meson1, 0, DATA_S),
      Rec(STR_dtb, STR_boot, 1, DATA_A) }

RECURSIVE SeqsUpTo(_, _)
SeqsUpTo(S, n) ==
    IF n = 0 THEN {<<>>}
    ELSE LET shorter == SeqsUpTo(S, n - 1)
         IN  shorter \cup {Append(q, x) : q \in shorter, x \in S}

\* The length of the data of the records before index i.
RECURSIVE data_before(_, _)
data_before(table, i) ==
    IF i <= 1 THEN 0
    ELSE data_before(table, i - 1) + Len(table[i - 1].data)

RECURSIVE concat_data(_, _)
concat_data(table, i) ==
    IF i > Len(table) THEN <<>>
    ELSE table[i].data \o concat_data(table, i + 1)

\* The RawItemInfo of the record of index i (from 1) of an input file.
table_info(table, i, size_info) ==
    [item_id |-> i - 1,
     file_type |-> FILE_TYPE_GENERIC,
     current_offset_in_item |-> 0,
     offset_in_image |-> SIZE_RAW_IMAGE_HEAD + size_info * Len(table)
                         + data_before(table, i),
     item_size |-> Len(table[i].data),
     item_main_type |-> table[i].item_main_type,
     item_sub_type |-> table[i].item_sub_type,
     verify |-> table[i].verify,
     is_backup_item |-> 0,
     backup_item_id |-> 0]

\* An image file as another tool may have written it: a header with the
\* given magic and version, the table in the layout LEN, the data.
RawFile(magic, raw_version, LEN, table) ==
    LET size_info == SizeRawItemInfo(LEN)
        RECURSIVE raw_infos(_)
        raw_infos(i) ==
            IF i > Len(table) THEN <<>>
            ELSE RawItemInfo_bytes(table_info(table, i, size_info), LEN)
                 \o raw_infos(i + 1)
        body == concat_data(table, 1)
    IN  RawImageHead_bytes(
            [crc |-> <<0, 0, 0, 0>>, version |-> raw_version,
             magic |-> magic,
             image_size |-> SIZE_RAW_IMAGE_HEAD + size_info * Len(table)
                            + Len(body),
             item_align_size |-> 4, item_count |-> Len(table)])
        \o raw_infos(1) \o body

\* A magic that is not MAGIC.
BAD_MAGIC == MAGIC + 1

\* (magic, version, LEN) of the headers of input files: the two versions,
\* an unknown version, a wrong magic with a known and an unknown version.
InputHeaders ==
    { <<MAGIC, 1, SIZE_ITEM_TYPE_V1>>, <<MAGIC, 2, SIZE_ITEM_TYPE_V2>>,
      <<MAGIC, 3, SIZE_ITEM_TYPE_V1>>, <<BAD_MAGIC, 2, SIZE_ITEM_TYPE_V2>>,
      <<BAD_MAGIC, 0, SIZE_ITEM_TYPE_V1>> }

\* The sequences without repetition of at most n elements of the set S.
RECURSIVE ArrangementsUpTo(_, _)
ArrangementsUpTo(S, n) ==
    IF n = 0 THEN {<<>>}
    ELSE {<<>>} \cup UNION {{<<x>> \o q : q \in ArrangementsUpTo(S \ {x}, n - 1)}
                            : x \in S}

\* The items of the Images whose items come in any order.
OrderItems ==
    { Filled(STR_DDR, STR_USB, DATA_A),
      Filled(STR_DDR_ENC, STR_USB, DATA_P),
      Filled(STR_UBOOT, STR_USB, DATA_B),
      Filled(STR_UBOOT_ENC, STR_USB, DATA_B),
      Filled(STR_aml_sdc_burn, STR_ini, DATA_P),
      Filled(STR_boot, STR_PARTITION, DATA_P),
      Filled(STR_boot_b, STR_PARTITION, DATA_P),
      Filled(STR_boot, STR_dtb, DATA_S) }

OrderImages(n) ==
    [version : ImageVersions, align : {4},
     items : ArrangementsUpTo(OrderItems, n)]

STR_BL2 == <<66, 76, 50>>

\* The items of the Images the encoder is given in any order and with
\* any alignment: a repeated reserved name, a USB item of another stem,
\* items with no digest, an item with the digest of other data.
EncodeItems ==
    { Filled(STR_DDR, STR_USB, DATA_A),
      Filled(STR_DDR, STR_USB, DATA_B),
      Filled(STR_UBOOT, STR_USB, DATA_B),
      Filled(STR_BL2, STR_USB, DATA_A),
      Item(STR_aml_sdc_burn, STR_ini, DATA_P, None),
      Item(STR_boot, STR_PARTITION, DATA_P, None),
      Item(STR_boot_b, STR_PARTITION, DATA_P, Sha1sum_from_data(DATA_S)) }

EncodeImages(n) ==
    [version : ImageVersions, align : {0, 3, 4},
     items : ArrangementsUpTo(EncodeItems, n)]

NoImage == [version |-> "V2", align |-> 0, items |-> <<>>]
NoImageToWrite == ImageToWrite_new(NoImage)
NoDecoder == Decoder_new(RawImageHead_new("V2", 0), "V2")
NoHasher == [value |-> <<0, 0, 0, 0>>, fed |-> 0, calls |-> <<>>]

\* "123456789"
STR_123456789 == <<49, 50, 51, 52, 53, 54, 55, 56, 57>>

\* The byte strings a hasher is fed.
CrcInputs(n) == SeqsUpTo({0, 97, 255}, n) \cup {STR_123456789}
NoPar == [jobs |-> <<>>, out |-> <<>>, done |-> <<>>]

(* ---------------------------- state machine --------------------------- *)

VARIABLES
    image,      \* the Image in memory that try_write_file is called on
    pc,         \* where the program is
    result,     \* the Result of the last operation that returned
    queue,      \* try_from: the items in the order they are appended
    itw,        \* try_from: the ImageToWrite
    applog,     \* try_from: per append_item call, what it did to the body
    file,       \* the bytes of the image file
    dec,        \* try_read_file: its locals
    decoded,    \* the Image try_read_file returned, if any
    table,      \* the table an input file was made of, if another tool's
    hasher,     \* a Crc32Hasher and the bytes it was given
    par         \* verify, fill_verify: the jobs of the parallel iterator

vars == <<image, pc, result, queue, itw, applog, file, dec, decoded, table,
          hasher, par>>

Init ==
    /\ image \in InputImages
    /\ pc = "loaded"
    /\ result = Pending
    /\ queue = <<>>
    /\ itw = NoImageToWrite
    /\ applog = <<>>
    /\ file = <<>>
    /\ dec = NoDecoder
    /\ decoded = <<>>
    /\ table = <<>>
    /\ hasher = NoHasher
    /\ par = NoPar

\* An Image whose items come in any order, as try_read_dir and the callers
\* of try_write_file may build it.
InitOrder ==
    /\ image \in OrderImages(MaxItems)
    /\ pc = "loaded"
    /\ result = Pending
    /\ queue = <<>>
    /\ itw = NoImageToWrite
    /\ applog = <<>>
    /\ file = <<>>
    /\ dec = NoDecoder
    /\ decoded = <<>>
    /\ table = <<>>
    /\ hasher = NoHasher
    /\ par = NoPar

\* An Image of any alignment whose items come in any order, some of
\* which the encoder refuses.
InitEncode ==
    /\ image \in EncodeImages(MaxItems)
    /\ pc = "loaded"
    /\ result = Pending
    /\ queue = <<>>
    /\ itw = NoImageToWrite
    /\ applog = <<>>
    /\ file = <<>>
    /\ dec = NoDecoder
    /\ decoded = <<>>
    /\ table = <<>>
    /\ hasher = NoHasher
    /\ par = NoPar

\* A file that try_read_file is called on and that this program did not
\* write: any table under a header try_read_file accepts, short tables
\* under the other headers, and a file too short for a header.
InitFile ==
    /\ image = NoImage
    /\ pc = "file"
    /\ result = Pending
    /\ queue = <<>>
    /\ itw = NoImageToWrite
    /\ applog = <<>>
    /\ dec = NoDecoder
    /\ decoded = <<>>
    /\ hasher = NoHasher
    /\ par = NoPar
    /\ table \in SeqsUpTo(RecPool, MaxRecords)
    /\ \E h \in InputHeaders, cut \in {0, 1} :
          /\ (h[1] # MAGIC \/ h[2] = 3 \/ cut = 1) => Len(table) <= 1
          /\ LET f == RawFile(h[1], h[2], h[3], table)
             IN  file = SubSeq(f, 1, IF cut = 1 /\ Len(table) = 0
                                    THEN SIZE_RAW_IMAGE_HEAD - 1
                                    ELSE Len(f) - cut)

\* try_write_file creating the output file before it calls try_from.
TryFrom_after_create ==
    /\ pc = "loaded"
    /\ LET r == emission_order(image)
       IN  IF r.result = Ok
           THEN /\ pc' = "appending"
                /\ queue' = r.items
                /\ itw' = ImageToWrite_new(image)
                /\ UNCHANGED result
           ELSE /\ pc' = "write_failed"
                /\ result' = r.result
                /\ UNCHANGED <<queue, itw>>
    /\ file' = <<>>
    /\ UNCHANGED <<image, applog, dec, decoded, table, hasher, par>>

\* try_write_file, ImageToWrite::try_from: the classification of the items,
\* the MissingItem checks and the sort.
TryFrom ==
    /\ pc = "loaded"
    /\ LET r == emission_order(image)
       IN  IF r.result = Ok
           THEN /\ pc' = "appending"
                /\ queue' = r.items
                /\ itw' = ImageToWrite_new(image)
                /\ UNCHANGED result
           ELSE /\ pc' = "write_failed"
                /\ result' = r.result
                /\ UNCHANGED <<queue, itw>>
    /\ UNCHANGED <<image, applog, file, dec, decoded, table,
                   hasher, par>>

\* try_from: the next append_item call.
AppendItem ==
    /\ pc = "appending"
    /\ Len(applog) < Len(queue)
    /\ LET item == queue[Len(applog) + 1]
           r == append_item(itw, item)
       IN  /\ itw' = r.itw
           /\ applog' = Append(applog,
                  [item |-> item, id |-> Len(itw.infos),
                   data |-> r.did.data, verify |-> r.did.verify,
                   len_before |-> Len(itw.data_body),
                   len_after |-> Len(r.itw.data_body)])
           /\ IF r.result = Ok
              THEN UNCHANGED <<pc, result>>
              ELSE pc' = "write_failed" /\ result' = r.result
    /\ UNCHANGED <<image, queue, file, dec, decoded, table,
                   hasher, par>>

\* try_from: finalize, once every item is appended.
Finalize ==
    /\ pc = "appending"
    /\ Len(applog) = Len(queue)
    /\ LET r == finalize(itw, image.version)
       IN  /\ itw' = r.itw
           /\ IF r.result = Ok
              THEN pc' = "finalized" /\ UNCHANGED result
              ELSE pc' = "write_failed" /\ result' = r.result
    /\ UNCHANGED <<image, queue, applog, file, dec, decoded, table,
                   hasher, par>>

\* try_from: the checksum, stored in the head and in the first four bytes
\* of data_head_infos; then try_write_file creates the file and writes
\* data_head_infos and data_body to it.
WriteFile ==
    /\ pc = "finalized"
    /\ LET crc == crc32_of_image(itw.data_head_infos, itw.data_body)
           head_infos == crc
                         \o SubSeq(itw.data_head_infos, 5,
                                   Len(itw.data_head_infos))
       IN  /\ itw' = [itw EXCEPT !.head.crc = crc,
                                 !.data_head_infos = head_infos]
           /\ file' = head_infos \o itw.data_body
    /\ pc' = "written"
    /\ result' = Ok
    /\ UNCHANGED <<image, queue, applog, dec, decoded, table,
                   hasher, par>>

\* try_read_file: the header.
ReadHeader ==
    /\ pc \in {"written", "file"}
    /\ LET r == read_header(file)
       IN  IF r.result = Ok
           THEN pc' = "reading" /\ dec' = r.dec /\ result' = Pending
           ELSE pc' = "read_failed" /\ result' = r.result /\ UNCHANGED dec
    /\ UNCHANGED <<image, queue, itw, applog, file, decoded, table,
                   hasher, par>>

\* try_read_file: one turn of the loop over the records.
ReadRecord ==
    /\ pc = "reading"
    /\ dec.item_id < dec.header.item_count
    /\ LET r == read_record(file, dec)
       IN  /\ dec' = r.dec
           /\ IF r.result = Ok
              THEN UNCHANGED <<pc, result>>
              ELSE pc' = "read_failed" /\ result' = r.result
    /\ UNCHANGED <<image, queue, itw, applog, file, decoded, table,
                   hasher, par>>

\* try_read_file: after the loop.
ReadFinish ==
    /\ pc = "reading"
    /\ dec.item_id >= dec.header.item_count
    /\ LET r == read_finish(dec)
       IN  /\ result' = r.result
           /\ decoded' = r.image
           /\ pc' = IF r.result = Ok THEN "read_done" ELSE "read_failed"
    /\ UNCHANGED <<image, queue, itw, applog, file, dec, table,
                   hasher, par>>

Next ==
    \/ TryFrom
    \/ AppendItem
    \/ Finalize
    \/ WriteFile
    \/ ReadHeader
    \/ ReadRecord
    \/ ReadFinish

Spec == Init /\ [][Next]_vars

\* The encoder alone, up to the finalized tables.
NextOrder ==
    \/ TryFrom
    \/ AppendItem
    \/ Finalize

SpecOrder == InitOrder /\ [][NextOrder]_vars

SpecEncode == InitEncode /\ [][NextOrder]_vars

\* What a file at the output path of try_write_file holds beforehand.
OLD_FILE == <<79, 76, 68>>

\* try_write_file is called with an output path at which there is no file
\* (an empty one stands for it) or a file.
InitWrite ==
    /\ image \in EncodeImages(MaxItems - 1)
    /\ pc = "loaded"
    /\ result = Pending
    /\ queue = <<>>
    /\ itw = NoImageToWrite
    /\ applog = <<>>
    /\ file \in {<<>>, OLD_FILE}
    /\ dec = NoDecoder
    /\ decoded = <<>>
    /\ table = <<>>
    /\ hasher = NoHasher
    /\ par = NoPar

NextWrite ==
    \/ TryFrom
    \/ AppendItem
    \/ Finalize
    \/ WriteFile

SpecWrite == InitWrite /\ [][NextWrite]_vars

\* The decoder alone.
NextRead ==
    \/ ReadHeader
    \/ ReadRecord
    \/ ReadFinish

SpecRead == InitFile /\ [][NextRead]_vars

(* ------------------------------ checksum ------------------------------ *)

\* Crc32Hasher::new(), and in file the bytes its caller will feed it.
InitCrc ==
    /\ image = NoImage
    /\ pc = "hashing"
    /\ result = Pending
    /\ queue = <<>>
    /\ itw = NoImageToWrite
    /\ applog = <<>>
    /\ file \in CrcInputs(MaxCrcLen)
    /\ dec = NoDecoder
    /\ decoded = <<>>
    /\ table = <<>>
    /\ hasher = [value |-> CRC32_INIT, fed |-> 0, calls |-> <<>>]
    /\ par = NoPar

\* Crc32Hasher::update on the next n bytes.
Update ==
    /\ pc = "hashing"
    /\ Len(hasher.calls) < MaxCalls
    /\ \E n \in 0..(Len(file) - hasher.fed) :
          hasher' = [value |-> crc32_update(hasher.value, file,
                                   hasher.fed + 1, hasher.fed + n),
                     fed |-> hasher.fed + n,
                     calls |-> Append(hasher.calls, <<"update", n>>)]
    /\ UNCHANGED <<image, pc, result, queue, itw, applog, file, dec,
                   decoded, table, par>>

\* Crc32Hasher::udpate_with_bar on the next n bytes.
UpdateWithBar ==
    /\ pc = "hashing"
    /\ Len(hasher.calls) < MaxCalls
    /\ \E n \in 0..(Len(file) - hasher.fed) :
          hasher' = [value |-> crc32_udpate_with_bar(hasher.value, file,
                                   hasher.fed + 1, hasher.fed + n),
                     fed |-> hasher.fed + n,
                     calls |-> Append(hasher.calls,
                                      <<"udpate_with_bar", n>>)]
    /\ UNCHANGED <<image, pc, result, queue, itw, applog, file, dec,
                   decoded, table, par>>

NextCrc == Update \/ UpdateWithBar

SpecCrc == InitCrc /\ [][NextCrc]_vars

(* ------------------------- verify, fill_verify ------------------------ *)

STR_platform == <<112, 108, 97, 116, 102, 111, 114, 109>>
STR_conf == <<99, 111, 110, 102>>

\* Image::find_item: Ok, or the error for a second or for no item of the
\* name.
find_item(items, stem, extension) ==
    LET hits == {i \in 1..Len(items) :
                    items[i].stem = stem /\ items[i].extension = extension}
    IN  IF Cardinality(hits) >= 2
        THEN ImageErrorItem("DuplicatedItem", stem, extension)
        ELSE IF hits = {}
        THEN ImageErrorItem("MissingItem", stem, extension)
        ELSE Ok

\* Image::find_essentials: the first error of the five lookups, or Ok.
find_essentials(items) ==
    LET names == << <<STR_DDR, STR_USB>>, <<STR_UBOOT, STR_USB>>,
                    <<STR_aml_sdc_burn, STR_ini>>, <<STR_meson1, STR_dtb>>,
                    <<STR_platform, STR_conf>> >>
        bad == {k \in 1..5 : find_item(items, names[k][1], names[k][2]) # Ok}
    IN  IF bad = {} THEN Ok
        ELSE LET k == CHOOSE b \in bad : \A c \in bad : b <= c
             IN  find_item(items, names[k][1], names[k][2])

TemplateError == [type |-> "TemplateError"]

\* ProgressStyle::with_template of indicatif, an external primitive: one
\* character of its template syntax. "{{" and "}}" stand for a brace, a
\* key in braces may be followed by ":", an alignment, a width and
\* styles, and any other sequence is refused.
template_next(state, c) ==
    LET space == c \in {9, 10, 12, 13, 32}
        digit == c \in 48..57
    IN  CASE state = "Literal" ->
                 IF c = 123 THEN "MaybeOpen"
                 ELSE IF c = 125 THEN "DoubleClose" ELSE "Literal"
          [] state = "DoubleClose" ->
                 IF c = 125 THEN "Literal" ELSE "Error"
          [] state = "MaybeOpen" ->
                 IF c = 123 \/ space THEN "Literal"
                 ELSE IF c = 125 \/ c = 58 THEN "Error" ELSE "Key"
          [] state = "Key" ->
                 IF space \/ c = 125 THEN "Literal"
                 ELSE IF c = 58 THEN "Align"
                 ELSE IF c = 33 THEN "Width" ELSE "Key"
          [] state = "Align" ->
                 IF c \in {60, 94, 62} \/ digit THEN "Width"
                 ELSE IF c = 46 THEN "FirstStyle"
                 ELSE IF c = 125 THEN "Literal" ELSE "Error"
          [] state = "Width" ->
                 IF digit \/ c = 33 THEN "Width"
                 ELSE IF c = 46 THEN "FirstStyle"
                 ELSE IF c = 125 THEN "Literal" ELSE "Error"
          [] state = "FirstStyle" ->
                 IF c = 47 THEN "AltStyle"
                 ELSE IF c = 125 THEN "Literal" ELSE "FirstStyle"
          [] state = "AltStyle" ->
                 IF c = 125 THEN "Literal" ELSE "AltStyle"
          [] OTHER -> "Error"

RECURSIVE template_state(_, _, _)
template_state(state, template, i) ==
    IF i > Len(template) \/ state = "Error" THEN state
    ELSE template_state(template_next(state, template[i]), template, i + 1)

\* progress_style_with_templace: Ok or the TemplateError.
progress_style_with_templace(template) ==
    IF template_state("Literal", template, 1) = "Error"
    THEN TemplateError ELSE Ok

\* "Verifying item => [{elapsed_precise}] {bar:40.cyan/blue}
\* {pos:>5}/{len:>5} MiB "
TEMPLATE_VERIFY ==
    <<86, 101, 114, 105, 102, 121, 105, 110, 103, 32, 105, 116, 101,
      109, 32, 61, 62, 32, 91, 123, 101, 108, 97, 112, 115, 101, 100,
      95, 112, 114, 101, 99, 105, 115, 101, 125, 93, 32, 123, 98, 97,
      114, 58, 52, 48, 46, 99, 121, 97, 110, 47, 98, 108, 117, 101,
      125, 32, 123, 112, 111, 115, 58, 62, 53, 125, 47, 123, 108, 101,
      110, 58, 62, 53, 125, 32, 77, 105, 66, 32>>

\* "Generating verify => [{elapsed_precise}] {bar:40.cyan/blue}
\* {pos:>5}/{len:>5} MiB "
TEMPLATE_FILL ==
    <<71, 101, 110, 101, 114, 97, 116, 105, 110, 103, 32, 118, 101,
      114, 105, 102, 121, 32, 61, 62, 32, 91, 123, 101, 108, 97, 112,
      115, 101, 100, 95, 112, 114, 101, 99, 105, 115, 101, 125, 93, 32,
      123, 98, 97, 114, 58, 52, 48, 46, 99, 121, 97, 110, 47, 98, 108,
      117, 101, 125, 32, 123, 112, 111, 115, 58, 62, 53, 125, 47, 123,
      108, 101, 110, 58, 62, 53, 125, 32, 77, 105, 66, 32>>

\* The template of an item's progress bar: the prefix, then
\* format!("{}.{}", item.stem, item.extension).
item_template(prefix, item) == prefix \o item.stem \o <<46>> \o item.extension

\* The loop that makes one progress bar per item to hash: the first
\* error, or Ok.
progress_bars(prefix, items, jobs) ==
    LET bad == {k \in 1..Len(jobs) :
                   progress_style_with_templace(
                       item_template(prefix, items[jobs[k]])) # Ok}
    IN  IF bad = {} THEN Ok ELSE TemplateError

\* The indices of the items a filter keeps, in item order.
RECURSIVE filter_indices(_, _, _)
filter_indices(items, i, some) ==
    IF i > Len(items) THEN <<>>
    ELSE (IF (items[i].sha1sum # None) = some THEN <<i>> ELSE <<>>)
         \o filter_indices(items, i + 1, some)

\* The closure verify maps over the items: one item's check.
verify_item(item) ==
    IF item.sha1sum = None
    THEN ImageErrorItem("MissingItem", item.stem, STR_VERIFY)
    ELSE IF item.sha1sum # Sha1sum_from_data(item.data)
    THEN ImageError("IllegalVerify")
    ELSE Ok

\* find_first(|r| r.is_err()): nothing while a job before the first error
\* found so far is still running or while no error is found and a job is
\* still running; else the first error in job order, if any.
find_first_decided(out) ==
    LET errs == {k \in 1..Len(out) : out[k] \notin {Pending, Ok}}
    IN  IF errs = {} THEN \A k \in 1..Len(out) : out[k] # Pending
        ELSE \A k \in 1..Len(out) :
                (\A e \in errs : k < e) => out[k] # Pending
find_first(out) ==
    LET errs == {k \in 1..Len(out) : out[k] \notin {Pending, Ok}}
    IN  IF errs = {} THEN <<>>
        ELSE <<out[CHOOSE e \in errs : \A f \in errs : e <= f]>>

\* collect() taking the digests in the order the jobs finished in.
par_collect_as_finished(out, done) == [k \in 1..Len(done) |-> out[done[k]]]

\* collect() of an indexed parallel iterator into a Vec: the results in
\* job order, whatever order the jobs finished in.
par_collect(out, done) == out

\* The loop of fill_verify over need_verifies zipped with the digests.
fill_items(items, jobs, sha1sums) ==
    [i \in 1..Len(items) |->
        IF \E k \in 1..Min(Len(jobs), Len(sha1sums)) : jobs[k] = i
        THEN [items[i] EXCEPT !.sha1sum =
                 sha1sums[CHOOSE k \in 1..Len(jobs) : jobs[k] = i]]
        ELSE items[i]]

STR_a_brace_b == <<97, 125, 98>>

\* The items of the Images verify is called on: with their digest, with
\* another digest, with none, and one whose name has a brace.
VerifyItems ==
    { Filled(STR_DDR, STR_USB, DATA_A),
      Item(STR_UBOOT, STR_USB, DATA_B, Sha1sum_from_data(DATA_A)),
      Item(STR_boot, STR_PARTITION, DATA_P, None),
      Item(STR_meson1, STR_dtb, DATA_S, Sha1sum_from_data(DATA_P)),
      Filled(STR_a_brace_b, STR_PARTITION, DATA_A) }

\* The items of the Images fill_verify is called on.
FillItems ==
    { Filled(STR_DDR, STR_USB, DATA_A),
      Item(STR_UBOOT, STR_USB, DATA_B, Sha1sum_from_data(DATA_A)),
      Item(STR_boot, STR_PARTITION, DATA_P, None),
      Item(STR_meson1, STR_dtb, DATA_S, None),
      Item(STR_a_brace_b, STR_PARTITION, DATA_A, None) }

ParImages(pool, n) ==
    [version : {"V2"}, align : {4}, items : ArrangementsUpTo(pool, n)]

InitPar(pool) ==
    /\ image \in ParImages(pool, MaxItems)
    /\ pc = "image"
    /\ result = Pending
    /\ queue = <<>>
    /\ itw = NoImageToWrite
    /\ applog = <<>>
    /\ file = <<>>
    /\ dec = NoDecoder
    /\ decoded = <<>>
    /\ table = <<>>
    /\ hasher = NoHasher
    /\ par = NoPar

\* Image::clear_verify on the items of an Image.
clear_verify(items) ==
    [i \in 1..Len(items) |-> [items[i] EXCEPT !.sha1sum = None]]

InitVerify == InitPar(VerifyItems)
InitFill == InitPar(FillItems)

\* verify, up to the start of the parallel iterator.
VerifyStart ==
    /\ \/ pc = "image"
       \/ pc = "fill_done" /\ result = Ok
    /\ LET essentials == find_essentials(image.items)  \* let _ = ...
           need_verifies == filter_indices(image.items, 1, TRUE)
           bars == progress_bars(TEMPLATE_VERIFY, image.items, need_verifies)
       IN  IF bars # Ok
           THEN pc' = "verify_done" /\ result' = bars /\ UNCHANGED par
           ELSE /\ pc' = "verifying"
                /\ par' = [jobs |-> need_verifies,
                           out |-> [k \in 1..Len(need_verifies) |-> Pending],
                           done |-> <<>>]
                /\ UNCHANGED result
    /\ UNCHANGED <<image, queue, itw, applog, file, dec, decoded, table,
                   hasher>>

\* verify: a worker runs the closure on one item.
VerifyWork ==
    /\ pc = "verifying"
    /\ \E k \in 1..Len(par.jobs) :
          /\ par.out[k] = Pending
          /\ par' = [par EXCEPT
                        !.out[k] = verify_item(image.items[par.jobs[k]]),
                        !.done = Append(@, k)]
    /\ UNCHANGED <<image, pc, result, queue, itw, applog, file, dec,
                   decoded, table, hasher>>

\* verify: find_first returns, and verify with it.
VerifyDone ==
    /\ pc = "verifying"
    /\ find_first_decided(par.out)
    /\ result' = IF find_first(par.out) = <<>> THEN Ok
                 ELSE find_first(par.out)[1]
    /\ pc' = "verify_done"
    /\ UNCHANGED <<image, queue, itw, applog, file, dec, decoded, table,
                   hasher, par>>

NextVerify == VerifyStart \/ VerifyWork \/ VerifyDone

SpecVerify == InitVerify /\ [][NextVerify]_vars

\* fill_verify, up to the start of the parallel iterator.
FillStart ==
    /\ pc \in {"image", "cleared"}
    /\ LET need_verifies == filter_indices(image.items, 1, FALSE)
           bars == progress_bars(TEMPLATE_FILL, image.items, need_verifies)
       IN  IF bars # Ok
           THEN pc' = "fill_done" /\ result' = bars /\ UNCHANGED par
           ELSE /\ pc' = "filling"
                /\ par' = [jobs |-> need_verifies,
                           out |-> [k \in 1..Len(need_verifies) |-> None],
                           done |-> <<>>]
                /\ UNCHANGED result
    /\ UNCHANGED <<image, queue, itw, applog, file, dec, decoded, table,
                   hasher>>

\* fill_verify: a worker hashes one item's data.
FillWork ==
    /\ pc = "filling"
    /\ \E k \in 1..Len(par.jobs) :
          /\ par.out[k] = None
          /\ par' = [par EXCEPT
                        !.out[k] = Sha1sum_from_data(
                                       image.items[par.jobs[k]].data),
                        !.done = Append(@, k)]
    /\ UNCHANGED <<image, pc, result, queue, itw, applog, file, dec,
                   decoded, table, hasher>>

\* fill_verify: collect returns once every job has finished, and the
\* digests are stored.
FillDone ==
    /\ pc = "filling"
    /\ \A k \in 1..Len(par.jobs) : par.out[k] # None
    /\ image' = [image EXCEPT !.items =
                    fill_items(image.items, par.jobs,
                               par_collect(par.out, par.done))]
    /\ pc' = "fill_done"
    /\ result' = Ok
    /\ UNCHANGED <<queue, itw, applog, file, dec, decoded, table,
                   hasher, par>>

NextFill == FillStart \/ FillWork \/ FillDone

SpecFill == InitFill /\ [][NextFill]_vars

\* An Image whose digests are not trusted, as a decode without
\* verification returns it.
InitReverify ==
    /\ image \in ParImages(VerifyItems, MaxItems)
    /\ pc = "untrusted"
    /\ result = Pending
    /\ queue = <<>>
    /\ itw = NoImageToWrite
    /\ applog = <<>>
    /\ file = <<>>
    /\ dec = NoDecoder
    /\ decoded = <<>>
    /\ table = <<>>
    /\ hasher = NoHasher
    /\ par = NoPar

\* Image::clear_verify
ClearVerify ==
    /\ pc = "untrusted"
    /\ image' = [image EXCEPT !.items = clear_verify(image.items)]
    /\ pc' = "cleared"
    /\ UNCHANGED <<result, queue, itw, applog, file, dec, decoded, table,
                   hasher, par>>

\* clear_verify, fill_verify, then verify if fill_verify returned Ok.
NextReverify ==
    \/ ClearVerify
    \/ FillStart
    \/ FillWork
    \/ FillDone
    \/ VerifyStart
    \/ VerifyWork
    \/ VerifyDone

SpecReverify == InitReverify /\ [][NextReverify]_vars

(* ---------------------------- set_ver_align --------------------------- *)

STR_super == <<115, 117, 112, 101, 114>>
STR_boot_a == <<98, 111, 111, 116, 95, 97>>
STR_A_SUFFIX == <<95, 97>>
\* Image::guess_align_size
guess_align_size(items) ==
    IF find_item(items, STR_super, STR_PARTITION) # Ok THEN 4
    ELSE IF \E i \in 1..Len(items) :
               /\ items[i].extension = STR_PARTITION
               /\ ends_with(items[i].stem, STR_A_SUFFIX)
    THEN 8 ELSE 4

\* ((align + 3) >> 2 << 2) on a u8: the addition panics in a build with
\* overflow checks and wraps in one without; -1 stands for the panic.
round_align(align, overflow_checks) ==
    IF align + 3 > 255
    THEN IF overflow_checks THEN -1 ELSE (((align + 3) % 256) \div 4) * 4
    ELSE ((align + 3) \div 4) * 4

\* Image::set_ver_align: the Image afterwards and whether the warning was
\* printed, or the panic.
set_ver_align(img, ver, align, overflow_checks) ==
    LET rounded == round_align(align, overflow_checks)
    IN  IF rounded < 0 THEN [result |-> Panic, image |-> img]
        ELSE [result |-> [type |-> "Unit", ver |-> ver, align |-> align,
                          warned |-> guess_align_size(img.items) # rounded],
              image |-> [img EXCEPT !.version = ver, !.align = rounded]]

\* The items of the Images set_ver_align is called on, in emission order.
AlignPool ==
    << Filled(STR_DDR, STR_USB, DATA_A),
       Filled(STR_UBOOT, STR_USB, DATA_B),
       Filled(STR_boot_a, STR_PARTITION, DATA_A),
       Filled(STR_super, STR_PARTITION, DATA_B) >>

\* try_read_dir returns Images of version V2 and alignment 4.
AlignImages(n) ==
    [version : {"V2"}, align : {4},
     items : SubSeqsUpTo(AlignPool, 1, n)]

\* An Image as try_read_dir returns it, before set_ver_align.
InitAlign ==
    /\ image \in AlignImages(MaxItems)
    /\ pc = "image"
    /\ result = Pending
    /\ queue = <<>>
    /\ itw = NoImageToWrite
    /\ applog = <<>>
    /\ file = <<>>
    /\ dec = NoDecoder
    /\ decoded = <<>>
    /\ table = <<>>
    /\ hasher = NoHasher
    /\ par = NoPar

\* Image::set_ver_align with any version and any u8, in either build; the
\* Image is then given to the encoder, followed here up to the last
\* append_item call.
SetVerAlign ==
    /\ pc = "image"
    /\ \E ver \in ImageVersions, align \in 0..255,
          overflow_checks \in BOOLEAN :
          LET r == set_ver_align(image, ver, align, overflow_checks)
          IN  /\ image' = r.image
              /\ result' = r.result
              /\ pc' = IF r.result = Panic THEN "panicked" ELSE "loaded"
    /\ UNCHANGED <<queue, itw, applog, file, dec, decoded, table,
                   hasher, par>>

NextAlign == SetVerAlign \/ TryFrom \/ AppendItem

SpecAlign == InitAlign /\ [][NextAlign]_vars

(* ----------------------------- name fields ---------------------------- *)

\* The length of the name fields of a record of the version.
SizeItemType(version) ==
    IF version = "V1" THEN SIZE_ITEM_TYPE_V1 ELSE SIZE_ITEM_TYPE_V2

\* A name of n bytes of ASCII letters.
NameAscii(n) == [i \in 1..n |-> 97 + ((i - 1) % 26)]

\* A name of n bytes of two-byte characters (U+00E9), led by one ASCII
\* letter when n is odd.
NameAccented(n) ==
    [i \in 1..n |->
        IF n % 2 = 1 /\ i = 1 THEN 120
        ELSE IF (i + n) % 2 = 1 THEN 195 ELSE 169]

\* n bytes that are not UTF-8.
NameBytes(n) == [i \in 1..n |-> IF i % 2 = 1 THEN 255 ELSE 128]

\* The lengths names are taken at: short ones, and the lengths about LEN.
NameLens(LEN) ==
    (0..MaxNameOver) \cup ((LEN - MaxNameOver)..(LEN + MaxNameOver))

\* The names of items: Strings, so well-formed UTF-8.
Names(LEN) ==
    {NameAscii(n) : n \in NameLens(LEN)}
        \cup {NameAccented(n) : n \in NameLens(LEN)}

\* The Images whose first item's stem is the name that gets encoded.
NameImages ==
    UNION {{[version |-> v, align |-> 4,
             items |-> <<Filled(name, STR_USB, DATA_A)>>] :
                name \in Names(SizeItemType(v))} : v \in {"V1", "V2"}}

\* The name field of a record of a file, which holds any LEN bytes: those
\* of src, zeros after them when src is shorter than the field.
RawField(LEN, src) ==
    LET len == Min(LEN, Len(src))
    IN  SubSeq(src, 1, len) \o Zeros(LEN - len)

RawFields(LEN) ==
    {RawField(LEN, src) :
        src \in Names(LEN) \cup {NameBytes(n) : n \in NameLens(LEN)}}

\* What may lie in memory after a field before the next zero byte.
Beyond == {<<>>, <<66>>, <<1, 255>>}

InitName ==
    /\ image \in NameImages
    /\ pc = "name"
    /\ result = Pending
    /\ queue = <<>>
    /\ itw = NoImageToWrite
    /\ applog = <<>>
    /\ file = <<>>
    /\ dec = NoDecoder
    /\ decoded = NoImage
    /\ table = <<>>
    /\ hasher = NoHasher
    /\ par = NoPar

\* Into<RawItemInfoVariableLength<LEN>>: the name field of the record of
\* the item.
EncodeName ==
    /\ pc = "name"
    /\ file' = bytes_fill_from_str(SizeItemType(image.version),
                                   image.items[1].stem)
    /\ pc' = "encoded"
    /\ UNCHANGED <<image, result, queue, itw, applog, dec, decoded, table,
                   hasher, par>>

\* A record read from a file: its name field holds what the file holds.
ReadField ==
    /\ pc = "name"
    /\ \E field \in RawFields(SizeItemType(image.version)) : file' = field
    /\ pc' = "raw"
    /\ UNCHANGED <<image, result, queue, itw, applog, dec, decoded, table,
                   hasher, par>>

\* From<RawItemInfoVariableLength<LEN>>: the name of the field. A field
\* with no zero byte is read past its end.
DecodeName ==
    /\ pc \in {"encoded", "raw"}
    /\ \E beyond \in Beyond :
          result' = [type |-> "String",
                     value |-> string_from_memory(file, beyond)]
    /\ pc' = IF pc = "encoded" THEN "round_trip" ELSE "field_read"
    /\ UNCHANGED <<image, queue, itw, applog, file, dec, decoded, table,
                   hasher, par>>

NextName == EncodeName \/ ReadField \/ DecodeName

SpecName == InitName /\ [][NextName]_vars

(* ------------------------ encoder: round trip ------------------------- *)

\* The record append_item pushed for the item of applog entry k, if it did.
HasRecord(k) == applog[k].id < Len(itw.infos)
ItemRecord(k) == itw.infos[applog[k].id + 1]
IsPartition(k) == applog[k].item.extension = STR_PARTITION
\* The VERIFY record pushed after the record of a PARTITION item.
VerifyRecord(k) == itw.infos[applog[k].id + 2]
\* What offset_in_image counts from: the body before finalize, the file
\* after.
BodyBase == Len(itw.data_head_infos)

NameData(items) ==
    {<<items[i].stem, items[i].extension, items[i].data>> :
        i \in 1..Len(items)}
PartitionDigests(items) ==
    {<<items[i].stem, items[i].sha1sum>> :
        i \in {j \in 1..Len(items) : items[j].extension = STR_PARTITION}}
OwnDigests(items) ==
    \A i \in 1..Len(items) :
        items[i].sha1sum = Sha1sum_from_data(items[i].data)

\* C1: for every Image the encoder accepts whose items carry the digest of
\* their own data, try_read_file on the bytes try_write_file produced
\* succeeds and returns the same items: the same (stem, extension, data),
\* and for the PARTITION items, the only ones a file stores a digest for,
\* the same digest.
C1_RoundTrip ==
    (pc \in {"read_done", "read_failed"} /\ table = <<>>
        /\ OwnDigests(image.items))
    => /\ pc = "read_done"
       /\ NameData(decoded[1].items) = NameData(image.items)
       /\ PartitionDigests(decoded[1].items) = PartitionDigests(image.items)

(* --------------------------- encoder: backups ------------------------- *)

\* Entries a before b of two PARTITION items with distinct stems, the same
\* data and the same digest, both with their records in the table.
TwinPartitions(a, b) ==
    /\ a < b
    /\ IsPartition(a) /\ IsPartition(b)
    /\ HasRecord(a) /\ HasRecord(b)
    /\ applog[a].item.stem # applog[b].item.stem
    /\ applog[a].item.data = applog[b].item.data
    /\ applog[a].item.sha1sum = applog[b].item.sha1sum

\* The entries before b whose record find_backup may answer for the digest
\* of the item of b: the same digest, not a DDR_ENC.USB or UBOOT_ENC.USB.
EarlierHolders(b) ==
    {c \in 1..(b - 1) :
        /\ applog[c].item.sha1sum = applog[b].item.sha1sum
        /\ ~ (/\ applog[c].item.extension = STR_USB
              /\ ends_with(applog[c].item.stem, STR_ENC_SUFFIX))}

ScenarioItems ==
    << Filled(STR_DDR, STR_USB, DATA_A), Filled(STR_UBOOT, STR_USB, DATA_B),
       Filled(STR_boot, STR_PARTITION, DATA_P),
       Filled(STR_boot_b, STR_PARTITION, DATA_P) >>

\* C3: append_item leaves the length of the body unchanged for a PARTITION
\* item encoded as a backup (neither its data nor the 48 bytes of its
\* VERIFY record are appended), so the body of the scenario at alignment 4
\* is the two USB items padded to 8 bytes each, one copy of the 16 bytes
\* and one VERIFY payload of 48 bytes.
C3_BackupVerifyNotAppended ==
    /\ \A k \in 1..Len(applog) :
          (IsPartition(k) /\ HasRecord(k)
              /\ ItemRecord(k).is_backup_item = 1)
          => applog[k].len_after = applog[k].len_before
    /\ (pc = "written" /\ image.items = ScenarioItems /\ image.align = 4)
       => Len(itw.data_body) = 8 + 8 + 16 + SIZE_VERIFY

\* C4: the VERIFY record of a PARTITION item encoded as a backup has
\* is_backup_item = 1 and backup_item_id = the partition's backup_item_id
\* + 1, which is the id of the VERIFY record of the original (a VERIFY
\* record with the original's stem), and its offset_in_image is that
\* record's and addresses 48 bytes that start with "sha1sum ".
C4_BackupVerifyReference ==
    \A k \in 1..Len(applog) :
        (IsPartition(k) /\ HasRecord(k) /\ ItemRecord(k).is_backup_item = 1)
        => LET v == VerifyRecord(k)
               orig == ItemRecord(k).backup_item_id
           IN  /\ v.is_backup_item = 1
               /\ v.backup_item_id = orig + 1
               /\ v.backup_item_id < Len(itw.infos)
               /\ LET t == itw.infos[v.backup_item_id + 1]
                  IN  /\ t.item_main_type = STR_VERIFY
                      /\ t.item_sub_type = itw.infos[orig + 1].item_sub_type
                      /\ t.offset_in_image = v.offset_in_image
               /\ v.offset_in_image - BodyBase + SIZE_VERIFY
                      <= Len(itw.data_body)
               /\ starts_with(Slice(itw.data_body,
                                    v.offset_in_image - BodyBase, SIZE_VERIFY),
                              STR_SHA1SUM_PREFIX)

(* ------------------------------ decoder ------------------------------- *)

\* What the last turn of the loop met.
Last == dec.last[1]
\* The last turn read a record and its data.
Turn == dec.last # <<>> /\ Last.readable
PendingTurn == Turn /\ Last.pending # <<>>
FreeTurn == Turn /\ Last.pending = <<>>
\* The data of the record of the last turn.
LastData == Slice(file, Last.info.offset_in_image, Last.info.item_size)
\* The record of the last turn is the VERIFY record of the pending item.
LastMatches ==
    /\ Last.info.item_main_type = STR_VERIFY
    /\ Last.info.item_sub_type = Last.pending[1].stem
Unmatched == ImageError("UnmatchedVerify")
Illegal == ImageError("IllegalVerify")
\* The last turn failed and try_read_file returned its error.
Failed(error) ==
    /\ Last.result = error
    /\ pc = "read_failed"
    /\ result = error
    /\ decoded = <<>>
    /\ Len(dec.items) = Last.emitted

\* C5: decoding fails with UnmatchedVerify when the record read while a
\* PARTITION item awaits its VERIFY record has another main type than
\* "VERIFY" or another sub type than the item's stem, and when the table
\* ends while an item still awaits its VERIFY record; so a file whose
\* table holds a PARTITION record with verify = 1 that no VERIFY record of
\* its sub type follows is never decoded.
C5_UnmatchedVerify ==
    /\ (PendingTurn /\ ~ LastMatches) => Failed(Unmatched)
    /\ (pc \in {"read_done", "read_failed"}
           /\ dec.item_id = dec.header.item_count /\ dec.need_verify # <<>>)
       => (pc = "read_failed" /\ result = Unmatched /\ decoded = <<>>)
    /\ pc = "read_done" =>
          \A i \in 1..Len(table) :
              (table[i].item_main_type = STR_PARTITION /\ table[i].verify = 1)
              => /\ i < Len(table)
                 /\ table[i + 1].item_main_type = STR_VERIFY
                 /\ table[i + 1].item_sub_type = table[i].item_sub_type

\* A record that is not a VERIFY record, with the stem of the pending
\* PARTITION as its sub type, has made try_read_file fail.
C5_Witness ==
    /\ pc = "read_failed"
    /\ PendingTurn
    /\ Last.pending[1].extension = STR_PARTITION
    /\ Last.info.item_main_type # STR_VERIFY
    /\ Last.info.item_sub_type = Last.pending[1].stem

\* C6 as the spec states it: with no item pending, a record with verify =
\* 0 is emitted at once as an item with no digest and a record with
\* verify = 1 becomes the pending item, whatever its main type.
C6_Original ==
    FreeTurn =>
        /\ Last.info.verify = 0 =>
              /\ Last.result = Ok
              /\ Len(dec.items) = Last.emitted + 1
              /\ dec.items[Len(dec.items)].sha1sum = None
              /\ dec.need_verify = <<>>
        /\ Last.info.verify = 1 =>
              /\ Last.result = Ok
              /\ Len(dec.items) = Last.emitted
              /\ dec.need_verify # <<>>

\* C6, amended: with no item pending the transition is chosen by the main
\* type and then the verify flag.  A PARTITION record with verify = 0
\* fails with UnmatchedVerify and one with another verify becomes the
\* pending item; a record of another main type with verify = 0 is emitted
\* at once as an item with no digest and one with another verify fails
\* with IllegalVerify.
C6_ByMainType ==
    FreeTurn =>
        LET info == Last.info
            item == Item(info.item_sub_type, info.item_main_type,
                         LastData, None)
        IN  IF info.item_main_type = STR_PARTITION
            THEN IF info.verify = 0
                 THEN Failed(Unmatched)
                 ELSE /\ Last.result = Ok
                      /\ Len(dec.items) = Last.emitted
                      /\ dec.need_verify = <<item>>
            ELSE IF info.verify = 0
                 THEN /\ Last.result = Ok
                      /\ Len(dec.items) = Last.emitted + 1
                      /\ dec.items[Len(dec.items)] = item
                      /\ dec.need_verify = <<>>
                 ELSE Failed(Illegal)

\* A record that is not a PARTITION, with verify = 1 and no item pending,
\* has made try_read_file fail.
C6_Witness ==
    /\ FreeTurn
    /\ Last.info.item_main_type # STR_PARTITION
    /\ Last.info.verify = 1
    /\ pc = "read_failed"

IsHexDigit(b) ==
    (b >= 48 /\ b <= 57) \/ (b >= 65 /\ b <= 70) \/ (b >= 97 /\ b <= 102)
IsHex(bytes) == \A i \in 1..Len(bytes) : IsHexDigit(bytes[i])
ToLowerHex(bytes) ==
    [i \in 1..Len(bytes) |->
        IF bytes[i] >= 65 /\ bytes[i] <= 70 THEN bytes[i] + 32 ELSE bytes[i]]
\* The record of the last turn is a VERIFY record as IllegalVerify wants it.
LastLegal ==
    /\ Last.info.item_size = 48
    /\ Len(LastData) >= 8
    /\ SubSeq(LastData, 1, 8) = STR_SHA1SUM_PREFIX
    /\ Last.info.verify = 0

\* C7: while an item is pending the next record is checked in this order:
\* another sub type than the pending stem or another main type than
\* "VERIFY" gives UnmatchedVerify; otherwise a payload that is not 48
\* bytes or does not start with "sha1sum ", or a verify flag that is not
\* 0, gives IllegalVerify; otherwise the last 40 bytes, when they are hex
\* digits, are the digest attached to the pending item, which is emitted
\* once, and no item is pending any more.
C7_PendingOrder ==
    PendingTurn =>
        IF ~ LastMatches THEN Failed(Unmatched)
        ELSE IF ~ LastLegal THEN Failed(Illegal)
        ELSE IF ~ IsHex(SubSeq(LastData, 9, 48)) THEN Last.result # Ok
        ELSE /\ Last.result = Ok
             /\ pc # "read_failed"
             /\ dec.item_id = Last.index + 1
             /\ dec.need_verify = <<>>
             /\ Len(dec.items) = Last.emitted + 1
             /\ LET item == dec.items[Len(dec.items)]
                IN  /\ item.stem = Last.pending[1].stem
                    /\ item.extension = Last.pending[1].extension
                    /\ item.data = Last.pending[1].data
                    /\ item.sha1sum # None
                    /\ Sha1sum_Display(item.sha1sum)
                           = ToLowerHex(SubSeq(LastData, 9, 48))

\* A VERIFY record has given the pending item its digest and the loop has
\* gone on to the next record.
C7_Witness ==
    /\ PendingTurn
    /\ Last.result = Ok
    /\ Len(dec.items) = Last.emitted + 1
    /\ dec.items[Len(dec.items)].sha1sum = Sha1sum_from_data(DATA_P)

\* C8 as the spec states it, failures of reading the file set aside: every
\* failure of try_read_file is an ImageError (InvalidMagic, InvalidVersion,
\* IllegalVerify or UnmatchedVerify) and returns no Image.
C8_Original ==
    (pc = "read_failed" /\ result.type # "IOError")
    => /\ result.type = "ImageError"
       /\ result.kind \in {"InvalidMagic", "InvalidVersion", "IllegalVerify",
                           "UnmatchedVerify"}
       /\ decoded = <<>>

\* C8, amended: a failure of try_read_file returns no Image and is one of
\* the four ImageErrors, the error of the hex parser (Error::FromHexError)
\* or an I/O error; a VERIFY record for the pending item with verify = 0
\* whose 48 bytes start with "sha1sum " and do not end with 40 hex digits
\* gives the error of the hex parser.
C8_FailureKinds ==
    /\ pc = "read_failed" =>
          /\ decoded = <<>>
          /\ \/ /\ result.type = "ImageError"
                /\ result.kind \in {"InvalidMagic", "InvalidVersion",
                                    "IllegalVerify", "UnmatchedVerify"}
             \/ result = FromHexError
             \/ result = IOError
    /\ (PendingTurn /\ LastMatches /\ LastLegal
           /\ ~ IsHex(SubSeq(LastData, 9, 48)))
       => Failed(FromHexError)
    /\ pc = "read_done" => (result = Ok /\ Len(decoded) = 1)

\* The hex parser has refused the payload of a VERIFY record.
C8_Witness ==
    /\ pc = "read_failed"
    /\ PendingTurn /\ LastMatches /\ LastLegal
    /\ ~ IsHex(SubSeq(LastData, 9, 48))

\* C9: try_read_file checks the header before it reads a record: a magic
\* other than 0x27B51956 gives InvalidMagic whatever the version, the
\* magic with a version other than 1 and 2 gives InvalidVersion; under
\* version 1 records of 128 bytes, under version 2 records of 576 bytes,
\* are read at 64 + record size * index, which is where the table of the
\* file holds the record of that index.
C9_HeaderChecks ==
    (pc \in {"reading", "read_done", "read_failed"}
        /\ Len(file) >= 64)
    => LET magic == LeValue(SubSeq(file, 9, 12))
           version == LeValue(SubSeq(file, 5, 8))
       IN  /\ magic # 666179926 =>
                 /\ pc = "read_failed"
                 /\ result.type = "ImageError"
                 /\ result.kind = "InvalidMagic"
                 /\ dec = NoDecoder
           /\ (magic = 666179926 /\ version \notin {1, 2}) =>
                 /\ pc = "read_failed"
                 /\ result.type = "ImageError"
                 /\ result.kind = "InvalidVersion"
                 /\ dec = NoDecoder
           /\ (magic = 666179926 /\ version \in {1, 2}) =>
                 /\ dec # NoDecoder
                 /\ dec.last # <<>> =>
                       /\ Last.size = IF version = 1 THEN 128 ELSE 576
                       /\ Last.at = 64 + Last.size * Last.index
                       /\ Last.index < Len(table) =>
                             /\ Last.info.item_id = Last.index
                             /\ Last.info.item_main_type
                                    = table[Last.index + 1].item_main_type
                             /\ Last.info.item_sub_type
                                    = table[Last.index + 1].item_sub_type
                             /\ Last.info.verify
                                    = table[Last.index + 1].verify
                             /\ Last.info.item_size
                                    = Len(table[Last.index + 1].data)

\* The third record of a version 2 file has been read.
C9_Witness ==
    /\ dec.last # <<>>
    /\ Last.index = 2
    /\ dec.version = "V2"
    /\ Last.at = 64 + 576 * 2

(* -------------------------- encoder: order --------------------------- *)

\* a before b in byte order, or a = b: at the first index where they
\* differ a has ended or has the lesser byte.
BytesLeq(a, b) ==
    \/ a = b
    \/ \E k \in 1..(Len(b)) :
          /\ k <= Len(a) + 1
          /\ \A j \in 1..(k - 1) : a[j] = b[j]
          /\ (k = Len(a) + 1 \/ a[k] < b[k])
NameLeq(x, y) ==
    IF x.stem = y.stem THEN BytesLeq(x.extension, y.extension)
    ELSE BytesLeq(x.stem, y.stem)
HasUsb(stem) ==
    \E i \in 1..Len(image.items) :
        image.items[i].stem = stem /\ image.items[i].extension = STR_USB
IsNamed(k, stem, extension) ==
    applog[k].item.stem = stem /\ applog[k].item.extension = extension

\* C10: in every image the encoder has finalized, the records of the
\* items are those of DDR.USB, of DDR_ENC.USB if the Image has one, of
\* UBOOT.USB, of UBOOT_ENC.USB if the Image has one, then those of all
\* other items of the Image in ascending byte order of (stem, extension),
\* whatever order the Image holds them in; the record of an item has the
\* next table id, and the record of a PARTITION item is followed at once
\* by a VERIFY record with the item's stem.
C10_EmissionOrder ==
    pc = "finalized" =>
        LET n == Len(applog)
            e1 == IF HasUsb(STR_DDR_ENC) THEN 1 ELSE 0
            e2 == IF HasUsb(STR_UBOOT_ENC) THEN 1 ELSE 0
            fixed == 2 + e1 + e2
        IN  /\ n = Len(image.items)
            /\ \A i \in 1..n : \E k \in 1..n : applog[k].item = image.items[i]
            /\ IsNamed(1, STR_DDR, STR_USB)
            /\ e1 = 1 => IsNamed(2, STR_DDR_ENC, STR_USB)
            /\ IsNamed(2 + e1, STR_UBOOT, STR_USB)
            /\ e2 = 1 => IsNamed(3 + e1, STR_UBOOT_ENC, STR_USB)
            /\ \A k \in (fixed + 1)..n : applog[k].item.extension # STR_USB
            /\ \A k \in (fixed + 1)..(n - 1) :
                  NameLeq(applog[k].item, applog[k + 1].item)
            /\ applog[1].id = 0
            /\ \A k \in 1..n :
                  /\ ItemRecord(k).item_id = applog[k].id
                  /\ ItemRecord(k).item_main_type = applog[k].item.extension
                  /\ ItemRecord(k).item_sub_type = applog[k].item.stem
                  /\ IsPartition(k) =>
                        /\ VerifyRecord(k).item_id = applog[k].id + 1
                        /\ VerifyRecord(k).item_main_type = STR_VERIFY
                        /\ VerifyRecord(k).item_sub_type = applog[k].item.stem
                  /\ (IF k < n THEN applog[k + 1].id ELSE Len(itw.infos))
                        = applog[k].id + (IF IsPartition(k) THEN 2 ELSE 1)

\* A finalized image of an Image that holds a PARTITION item first, an
\* item that sorts before it later and the USB items last.
C10_Witness ==
    /\ pc = "finalized"
    /\ Len(image.items) = 4
    /\ image.items[1].extension = STR_PARTITION
    /\ image.items[2].stem = STR_aml_sdc_burn
    /\ image.items[3].stem = STR_UBOOT
    /\ image.items[4].stem = STR_DDR

\* ------------------------------------------------------------------
\* The encoder's checks of the Image it is given.

IsReserved(stem) ==
    stem \in {STR_DDR, STR_UBOOT, STR_DDR_ENC, STR_UBOOT_ENC}
\* Item i of the Image is a USB item that is refused: its stem is not
\* reserved, or an earlier USB item has the same stem.
Offends(i) ==
    /\ image.items[i].extension = STR_USB
    /\ \/ ~IsReserved(image.items[i].stem)
       \/ \E j \in 1..(i - 1) :
             /\ image.items[j].extension = STR_USB
             /\ image.items[j].stem = image.items[i].stem
Offenders == {i \in 1..Len(image.items) : Offends(i)}
FirstOffender == CHOOSE i \in Offenders : \A j \in Offenders : i <= j
OffenceOf(i) ==
    IF IsReserved(image.items[i].stem)
    THEN ImageErrorItem("DuplicatedItem", image.items[i].stem, STR_USB)
    ELSE ImageErrorItem("UnexpectedItem", image.items[i].stem, STR_USB)
Missing(stem) == ImageErrorItem("MissingItem", stem, STR_USB)
ValidationPassed ==
    Offenders = {} /\ HasUsb(STR_DDR) /\ HasUsb(STR_UBOOT)
NoDigest == {i \in 1..Len(image.items) : image.items[i].sha1sum = None}
RefusedEarly(error) ==
    /\ pc = "write_failed"
    /\ result = error
    /\ applog = <<>>
    /\ itw = NoImageToWrite
    /\ file = <<>>

\* C11 as stated: the encoding of every Image with no UBOOT.USB item
\* fails with MissingItem naming UBOOT.USB.
C11_Original ==
    (pc # "loaded" /\ ~HasUsb(STR_UBOOT)) => RefusedEarly(Missing(STR_UBOOT))

\* C11: the encoding of every Image with no UBOOT.USB item fails before
\* any item is appended; it fails with MissingItem naming UBOOT.USB when
\* the Image has a DDR.USB item and no refused USB item, with MissingItem
\* naming DDR.USB when it has neither DDR.USB nor a refused USB item, and
\* with UnexpectedItem or DuplicatedItem otherwise.
C11_MissingUboot ==
    (pc # "loaded" /\ ~HasUsb(STR_UBOOT)) =>
        IF Offenders # {}
        THEN \E kind \in {"UnexpectedItem", "DuplicatedItem"} :
             \E i \in Offenders :
                RefusedEarly(ImageErrorItem(kind, image.items[i].stem,
                                            STR_USB))
        ELSE IF HasUsb(STR_DDR) THEN RefusedEarly(Missing(STR_UBOOT))
        ELSE RefusedEarly(Missing(STR_DDR))

\* The encoding of an Image with DDR.USB, other items and no UBOOT.USB has
\* failed with MissingItem naming UBOOT.USB.
C11_Witness ==
    /\ RefusedEarly(Missing(STR_UBOOT))
    /\ HasUsb(STR_DDR)
    /\ ~HasUsb(STR_UBOOT)
    /\ Len(image.items) >= 3

\* C12: when some USB item of the Image has a stem that is not reserved
\* or repeats the name of an earlier USB item, the encoding fails with
\* the error of the first such item in item order, UnexpectedItem or
\* DuplicatedItem naming its stem; when no USB item is refused, a missing
\* DDR.USB is reported, and a missing UBOOT.USB only if DDR.USB is there;
\* all these failures happen before any item is appended, so before any
\* digest is looked at.
C12_UsbValidation ==
    pc # "loaded" =>
        /\ Offenders # {} => RefusedEarly(OffenceOf(FirstOffender))
        /\ (Offenders = {} /\ ~HasUsb(STR_DDR)) =>
              RefusedEarly(Missing(STR_DDR))
        /\ (Offenders = {} /\ HasUsb(STR_DDR) /\ ~HasUsb(STR_UBOOT)) =>
              RefusedEarly(Missing(STR_UBOOT))
        /\ ValidationPassed => (pc # "write_failed" \/ applog # <<>>)
        /\ applog # <<>> => ValidationPassed

\* An Image whose first item has no digest, followed by a USB item of
\* another stem, then a second DDR.USB: the encoding has failed with
\* UnexpectedItem.
C12_Witness ==
    /\ Len(image.items) = 4
    /\ 1 \in NoDigest
    /\ Offenders = {3, 4}
    /\ ~HasUsb(STR_UBOOT)
    /\ RefusedEarly(ImageErrorItem("UnexpectedItem", STR_BL2, STR_USB))

\* The same with the second DDR.USB before the USB item of another stem.
C12_WitnessDuplicated ==
    /\ Len(image.items) = 4
    /\ Offenders = {3, 4}
    /\ RefusedEarly(ImageErrorItem("DuplicatedItem", STR_DDR, STR_USB))

\* C13 as stated: once the USB validation has passed, the encoding of an
\* Image with an item that has no digest ends with IllegalVerify, and no
\* file is written.
C13_Original ==
    (pc # "loaded" /\ ValidationPassed /\ NoDigest # {}) =>
        \/ pc = "appending" /\ result = Pending
        \/ pc = "write_failed" /\ result = Illegal /\ file = <<>>

\* The same for the Images of a positive alignment; the digests the
\* encoder holds are those the items carry, never computed from the data.
C13_PositiveAlign ==
    (pc # "loaded" /\ ValidationPassed /\ image.align > 0) =>
        /\ NoDigest # {} =>
              \/ pc = "appending" /\ result = Pending
              \/ /\ pc = "write_failed" /\ result = Illegal /\ file = <<>>
                 /\ applog[Len(applog)].item.sha1sum = None
        /\ \A k \in 1..Len(applog) :
              (k < Len(applog) \/ pc # "write_failed") =>
                 itw.sha1sums[applog[k].id + 1] = applog[k].item.sha1sum

\* ------------------------------------------------------------------
\* Backups.

\* Call k of append_item returned Ok.
Appended(k) == k < Len(applog) \/ pc # "write_failed"
\* The digest of table record r as the items give it: the digest an item
\* carries for the item's record, the digest of the VERIFY payload for
\* the record after a PARTITION item's.
RecordDigest(r) ==
    LET j == CHOOSE j \in 1..Len(applog) :
                 applog[j].id = r \/ (IsPartition(j) /\ applog[j].id + 1 = r)
    IN  IF applog[j].id = r THEN applog[j].item.sha1sum
        ELSE Sha1sum_from_data(STR_SHA1SUM_PREFIX
                               \o Sha1sum_Display(applog[j].item.sha1sum))
\* The records before that of item k with the item's digest that are not
\* USB records of a stem ending in _ENC.
Originals(k) ==
    {r \in 0..(applog[k].id - 1) :
        /\ RecordDigest(r) = applog[k].item.sha1sum
        /\ ~ (/\ itw.infos[r + 1].item_main_type = STR_USB
              /\ ends_with(itw.infos[r + 1].item_sub_type, STR_ENC_SUFFIX))}
Earliest(S) == CHOOSE r \in S : \A q \in S : r <= q
BackupOfEarliest(k) ==
    /\ ItemRecord(k).is_backup_item = (IF Originals(k) = {} THEN 0 ELSE 1)
    /\ applog[k].data = (Originals(k) = {})
    /\ Originals(k) # {} =>
          /\ ItemRecord(k).backup_item_id = Earliest(Originals(k))
          /\ ItemRecord(k).offset_in_image
                = itw.infos[Earliest(Originals(k)) + 1].offset_in_image

\* C14 as stated: an appended item is a backup exactly when an earlier
\* record other than a *_ENC USB record has its digest; the backup has
\* the id and the offset of the earliest such record, which is not a
\* backup itself, and the backup's data is not appended.
C14_Original ==
    \A k \in 1..Len(applog) :
        Appended(k) =>
            /\ BackupOfEarliest(k)
            /\ Originals(k) # {} =>
                  itw.infos[Earliest(Originals(k)) + 1].is_backup_item = 0

\* The same without the last part: the record a backup refers to may be
\* a backup.
C14_Reference ==
    \A k \in 1..Len(applog) : Appended(k) => BackupOfEarliest(k)

\* ------------------------------------------------------------------
\* Alignment.

\* Where the data of item k starts in the body.
BodyOffset(k) == ItemRecord(k).offset_in_image - BodyBase
IsMultiple(n, a) == \E q \in 0..n : q * a = n

\* C15: every item appended as a non-backup has its data in the body at
\* the smallest multiple of the Image's alignment that is not below the
\* length the body had before the append, and the bytes between that
\* length and the data are zero.
C15_AlignedOffset ==
    \A k \in 1..Len(applog) :
        (Appended(k) /\ ItemRecord(k).is_backup_item = 0) =>
            /\ BodyOffset(k) >= applog[k].len_before
            /\ IsMultiple(BodyOffset(k), image.align)
            /\ \A n \in applog[k].len_before..(BodyOffset(k) - 1) :
                  ~IsMultiple(n, image.align)
            /\ \A p \in (applog[k].len_before + 1)..BodyOffset(k) :
                  itw.data_body[p] = 0
            /\ SubSeq(itw.data_body, BodyOffset(k) + 1,
                      BodyOffset(k) + Len(applog[k].item.data))
                  = applog[k].item.data

\* A written image with a non-backup item stored after three bytes of
\* padding and another stored with none, after a VERIFY payload.
C15_Witness ==
    /\ pc = "written"
    /\ \E k \in 1..Len(applog), j \in 1..Len(applog) :
          /\ ItemRecord(k).is_backup_item = 0
          /\ BodyOffset(k) = applog[k].len_before + 3
          /\ ItemRecord(j).is_backup_item = 0
          /\ BodyOffset(j) = applog[j].len_before
          /\ j > 1
          /\ IsPartition(j - 1)

\* ------------------------------------------------------------------
\* Finalization.

Finalized == pc \notin {"loaded", "appending", "write_failed"}
RecordSize == IF image.version = "V1" THEN 128 ELSE 576
PartitionCount ==
    Cardinality({k \in 1..Len(applog) : IsPartition(k)})
\* What a finalized ImageToWrite holds.
FinalizedTable ==
    /\ itw.head.item_count = Len(itw.infos)
    /\ itw.head.item_count = Len(applog) + PartitionCount
    /\ \A i \in 1..Len(itw.infos) : itw.infos[i].item_id = i - 1
    /\ Len(itw.data_head_infos) = 64 + RecordSize * itw.head.item_count
    /\ itw.head.image_size = Len(itw.data_head_infos) + Len(itw.data_body)
    /\ pc # "finalized" =>
          /\ itw.head.image_size = Len(file)
          /\ LeValue(Slice(file, 12, 8)) = Len(file)
          /\ LeValue(Slice(file, 24, 4)) = Len(itw.infos)
NoSizeMismatch ==
    result.type = "ImageError" => result.kind # "SizeMismatch"
\* The step from an ImageToWrite with every item appended.
FinalizeStep ==
    (pc = "appending" /\ Len(applog) = Len(queue)) =>
        /\ pc' = "finalized"
        /\ Len(itw'.infos) = Len(itw.infos)
        /\ itw'.data_body = itw.data_body
        /\ \A i \in 1..Len(itw.infos) :
              /\ itw'.infos[i].offset_in_image
                    = itw.infos[i].offset_in_image + Len(itw'.data_head_infos)
              /\ [itw'.infos[i] EXCEPT !.offset_in_image = 0]
                    = [itw.infos[i] EXCEPT !.offset_in_image = 0]

\* C16: finalizing after any sequence of appends never fails with
\* SizeMismatch and adds the size of the head and table to the
\* offset_in_image of every record; in the finalized image item_count is
\* the number of table records, one per item and one more per PARTITION
\* item, record i has item_id i, the head and table take 64 bytes plus
\* 128 (V1) or 576 (V2) bytes per record, and image_size is the number of
\* bytes of the file written.
C16_Finalization ==
    /\ [](NoSizeMismatch /\ (Finalized => FinalizedTable))
    /\ [][FinalizeStep]_vars

\* A written V2 image of four items, one a PARTITION stored as a backup.
C16_Witness ==
    /\ pc = "written"
    /\ image.version = "V2"
    /\ Len(applog) = 4
    /\ \E k \in 1..4 : IsPartition(k) /\ ItemRecord(k).is_backup_item = 1
    /\ Len(itw.data_head_infos) = 64 + 576 * 5

\* ------------------------------------------------------------------
\* The checksum of a written file.

\* C17: the first four bytes of a file try_write_file has written are
\* the checksum of all its other bytes, which is the crc field of the
\* head, and try_hash_image_file on the file returns that value.
C17_StoredCrc ==
    pc = "written" =>
        /\ file = itw.data_head_infos \o itw.data_body
        /\ Slice(file, 0, 4) = itw.head.crc
        /\ try_hash_image_file(file) = itw.head.crc

\* A written V2 image of three items whose checksum is not the initial
\* value of the hasher.
C17_Witness ==
    /\ pc = "written"
    /\ image.version = "V2"
    /\ Len(applog) = 3
    /\ Len(file) > 64 + 576 * 3
    /\ Slice(file, 0, 4) # CRC32_INIT
    /\ Slice(file, 0, 4) # <<0, 0, 0, 0>>

\* ------------------------------------------------------------------
\* The checksum primitive.

\* One bit of the reflected CRC with polynomial 0xEDB88320.
CrcBit(reg) ==
    IF reg[1] % 2 = 1 THEN Xor32(Shr1(reg), CRC32_POLY) ELSE Shr1(reg)
\* n bits; the test of the length makes each step's value computed
\* before the next step starts.
RECURSIVE CrcBits(_, _)
CrcBits(reg, n) ==
    IF n = 0 THEN reg
    ELSE LET next == CrcBit(reg)
         IN  IF Len(next) = 4 THEN CrcBits(next, n - 1) ELSE next
\* One byte, bit by bit.
CrcByte(reg, byte) == CrcBits(Xor32(reg, <<byte, 0, 0, 0>>), 8)
RECURSIVE CrcFold(_, _, _)
CrcFold(reg, data, i) ==
    IF i > Len(data) THEN reg
    ELSE LET next == CrcByte(reg, data[i])
         IN  IF Len(next) = 4 THEN CrcFold(next, data, i + 1) ELSE next
\* The register after the bytes of data, from 0xFFFFFFFF, with no final
\* complement.
CrcBitwise(data) == CrcFold(<<255, 255, 255, 255>>, data, 1)
Complement(w) == <<255 - w[1], 255 - w[2], 255 - w[3], 255 - w[4]>>
\* The conventional CRC-32 of "123456789" and of "a", 0xCBF43926 and
\* 0xE8B7BE43.
CRC32_CHECK == <<38, 57, 244, 203>>
CRC32_OF_a == <<67, 190, 183, 232>>

\* C18: whatever calls of update and udpate_with_bar feed the bytes, the
\* value of the hasher is the register of the bit-by-bit reflected CRC of
\* polynomial 0xEDB88320 started at 0xFFFFFFFF over the bytes fed so far,
\* without final complement: 0xFFFFFFFF when nothing was fed, and the
\* complement of the conventional CRC-32 otherwise.
C18_CrcPrimitive ==
    pc = "hashing" =>
        /\ hasher.value = CrcBitwise(SubSeq(file, 1, hasher.fed))
        /\ hasher.value \in [1..4 -> 0..255]
        /\ hasher.fed = 0 => hasher.value = <<255, 255, 255, 255>>
        /\ (file = STR_123456789 /\ hasher.fed = 9) =>
              hasher.value = Complement(CRC32_CHECK)
        /\ (file = <<97>> /\ hasher.fed = 1) =>
              hasher.value = Complement(CRC32_OF_a)

\* "123456789" fed in three calls, of 4 bytes, of none and of 5 bytes.
C18_Witness ==
    /\ pc = "hashing"
    /\ file = STR_123456789
    /\ hasher.fed = 9
    /\ hasher.calls = <<<<"update", 4>>, <<"udpate_with_bar", 0>>,
                        <<"update", 5>>>>
    /\ hasher.value = <<217, 198, 11, 52>>

\* ------------------------------------------------------------------
\* verify and fill_verify.

HasDigest == {i \in 1..Len(image.items) : image.items[i].sha1sum # None}
Mismatching ==
    {i \in HasDigest :
        image.items[i].sha1sum # Sha1sum_from_data(image.items[i].data)}
\* The items a worker has hashed.
Hashed == {par.jobs[par.done[d]] : d \in 1..Len(par.done)}
HasBrace(item) ==
    \E c \in {123, 125} :
        \/ \E p \in 1..Len(item.stem) : item.stem[p] = c
        \/ \E p \in 1..Len(item.extension) : item.extension[p] = c
VerifyOutcome ==
    /\ result = (IF Mismatching # {} THEN Illegal ELSE Ok)
    /\ Hashed \subseteq HasDigest

\* C19 as stated: whatever order the workers run in, verify returns
\* IllegalVerify exactly when the digest recomputed for some item that
\* carries one differs from it, and Ok otherwise; items with no digest
\* are not hashed.
C19_Original == pc = "verify_done" => VerifyOutcome

\* The same for the Images in which no item that carries a digest has a
\* brace in its name.
C19_PlainNames ==
    /\ [](pc = "verify_done" =>
             \/ VerifyOutcome
             \/ /\ result = TemplateError
                /\ \E i \in HasDigest : HasBrace(image.items[i])
                /\ Hashed = {})
    /\ [](pc = "verify_done" =>
             ((\A i \in HasDigest : ~HasBrace(image.items[i]))
                 => VerifyOutcome))
    /\ [][image' = image]_vars

\* A step of fill_verify that returns Ok.
FillStep ==
    (pc # "fill_done" /\ pc' = "fill_done" /\ result' = Ok) =>
        /\ image'.version = image.version
        /\ image'.align = image.align
        /\ Len(image'.items) = Len(image.items)
        /\ \A i \in 1..Len(image.items) :
              /\ image'.items[i].stem = image.items[i].stem
              /\ image'.items[i].extension = image.items[i].extension
              /\ image'.items[i].data = image.items[i].data
              /\ image'.items[i].sha1sum # None
              /\ image'.items[i].sha1sum =
                    IF image.items[i].sha1sum = None
                    THEN Sha1sum_from_data(image.items[i].data)
                    ELSE image.items[i].sha1sum

\* C20: when fill_verify returns Ok, every item carries a digest: each
\* item that had none carries the digest of its own data, whatever order
\* the workers finished in, each item that had one keeps it, whether it
\* matches the data or not, and the data, the names and the order of the
\* items, the version and the alignment are as before.
C20_FillVerify == [][FillStep]_vars

\* fill_verify has returned Ok on an Image of four items, two of them
\* without digest, whose digests were computed in the reverse of item
\* order, and one with a digest of other data.
C20_Witness ==
    /\ pc = "fill_done"
    /\ result = Ok
    /\ Len(image.items) = 4
    /\ par.jobs = <<2, 4>>
    /\ par.done = <<2, 1>>
    /\ image.items[2].sha1sum = Sha1sum_from_data(image.items[2].data)
    /\ image.items[4].sha1sum = Sha1sum_from_data(image.items[4].data)
    /\ image.items[2].sha1sum # image.items[4].sha1sum
    /\ \E i \in {1, 3} :
          image.items[i].sha1sum # Sha1sum_from_data(image.items[i].data)

\* ------------------------------------------------------------------
\* clear_verify, fill_verify, verify.

OwnDigest(i) ==
    image.items[i].sha1sum = Sha1sum_from_data(image.items[i].data)
\* The step of clear_verify: no item has a digest afterwards and nothing
\* else has changed.
ClearStep ==
    pc = "untrusted" =>
        /\ pc' = "cleared"
        /\ image'.version = image.version
        /\ image'.align = image.align
        /\ Len(image'.items) = Len(image.items)
        /\ \A i \in 1..Len(image.items) :
              /\ image'.items[i].sha1sum = None
              /\ [image'.items[i] EXCEPT !.sha1sum = <<0>>]
                    = [image.items[i] EXCEPT !.sha1sum = <<0>>]
\* What the sequence leaves: fill_verify has filled every item with the
\* digest of its data, and the verify after it has returned Ok.
ReverifyOutcome ==
    /\ pc \notin {"fill_done", "verifying", "verify_done"} => result = Pending
    /\ pc \in {"fill_done", "verifying", "verify_done"} =>
          \A i \in 1..Len(image.items) : OwnDigest(i)
    /\ pc \in {"fill_done", "verifying"} => result = Ok
    /\ pc = "verify_done" => result = Ok

\* C21 as stated: for any Image the sequence clear_verify, fill_verify
\* leaves every item with the digest of its own data and a following
\* verify returns Ok.
C21_Original == ReverifyOutcome

\* clear_verify removes every digest and changes nothing else; the rest
\* holds for the Images with no brace in an item name; for the others
\* fill_verify returns TemplateError and leaves every item without digest.
C21_PlainNames ==
    /\ [][ClearStep]_vars
    /\ []((\A i \in 1..Len(image.items) : ~HasBrace(image.items[i]))
             => ReverifyOutcome)
    /\ []((\E i \in 1..Len(image.items) : HasBrace(image.items[i])) =>
             /\ pc \notin {"filling", "verifying", "verify_done"}
             /\ pc = "fill_done" =>
                   /\ result = TemplateError
                   /\ \A i \in 1..Len(image.items) :
                         image.items[i].sha1sum = None)

\* ------------------------------------------------------------------
\* The items of an Image.

UniqueNames(items) ==
    \A i \in 1..Len(items), j \in 1..Len(items) :
        (items[i].stem = items[j].stem
            /\ items[i].extension = items[j].extension) => i = j

\* C22 as stated: no Image the encoder has accepted and no Image a decode
\* has returned holds two items of the same (stem, extension).
C22_Original ==
    /\ pc \in {"finalized", "written"} => UniqueNames(image.items)
    /\ pc = "read_done" => UniqueNames(decoded[1].items)

\* What the encoder does refuse: two USB items of one reserved stem.
C22_ReservedUnique ==
    pc \in {"finalized", "written"} =>
        \A i \in 1..Len(image.items), j \in 1..Len(image.items) :
            (/\ image.items[i].extension = STR_USB
             /\ image.items[j].extension = STR_USB
             /\ image.items[i].stem = image.items[j].stem) => i = j

\* The records of the table of the input file that follow a PARTITION
\* record held by an item, and the others, in table order.
RECURSIVE ItemRecords(_)
ItemRecords(i) ==
    IF i > Len(table) THEN <<>>
    ELSE IF table[i].item_main_type = STR_PARTITION
    THEN <<i>> \o ItemRecords(i + 2)
    ELSE <<i>> \o ItemRecords(i + 1)
PartitionRecords ==
    {i \in 1..Len(table) : table[i].item_main_type = STR_PARTITION}
VerifyRecords ==
    {i \in 1..Len(table) : table[i].item_main_type = STR_VERIFY}
Decoded == pc = "read_done" /\ table # <<>>

\* C23 as stated: no Image returned by a decode holds an item of
\* extension VERIFY, and every VERIFY record of a decoded table comes
\* right after a PARTITION record, whose item took its digest.
C23_Original ==
    Decoded =>
        /\ \A k \in 1..Len(decoded[1].items) :
              decoded[1].items[k].extension # STR_VERIFY
        /\ \A i \in VerifyRecords : i > 1 /\ (i - 1) \in PartitionRecords

\* What holds: a VERIFY record right after a PARTITION record that
\* became an item is consumed, and any other becomes an item of
\* extension VERIFY.
C23_Consumed ==
    Decoded =>
        LET recs == ItemRecords(1)
        IN  /\ Len(decoded[1].items) = Len(recs)
            /\ \A k \in 1..Len(recs) :
                  /\ decoded[1].items[k].extension
                        = table[recs[k]].item_main_type
                  /\ decoded[1].items[k].extension = STR_PARTITION =>
                        /\ recs[k] + 1 \in VerifyRecords
                        /\ \A q \in 1..Len(recs) : recs[q] # recs[k] + 1

\* C27: in every Image a decode returns, the items that carry a digest
\* are the items of extension PARTITION, there are as many items as
\* records in the table less the PARTITION records, and the items are
\* those of the records that do not follow a PARTITION record, in table
\* order, with the record's names and data.
C27_DecodedItems ==
    Decoded =>
        LET items == decoded[1].items
            recs == ItemRecords(1)
        IN  /\ dec.header.item_count = Len(table)
            /\ \A k \in 1..Len(items) :
                  (items[k].sha1sum # None)
                      <=> (items[k].extension = STR_PARTITION)
            /\ Len(items) = Len(table) - Cardinality(PartitionRecords)
            /\ Len(items) = Len(recs)
            /\ \A k \in 1..Len(recs) :
                  /\ items[k].stem = table[recs[k]].item_sub_type
                  /\ items[k].extension = table[recs[k]].item_main_type
                  /\ items[k].data = table[recs[k]].data

\* A decode has returned the items of a table of a PARTITION record, its
\* VERIFY record and a record of another type.
C27_Witness ==
    /\ Decoded
    /\ Len(table) = 3
    /\ PartitionRecords = {1}
    /\ VerifyRecords = {2}
    /\ Len(decoded[1].items) = 2
    /\ decoded[1].items[1].sha1sum = Sha1sum_from_data(DATA_P)
    /\ decoded[1].items[2].sha1sum = None

\* ------------------------------------------------------------------
\* The alignment.

\* The smallest multiple of 4 that is not below a.
NextMultipleOf4(a) ==
    CHOOSE m \in 0..(a + 3) : m % 4 = 0 /\ m >= a /\ m - a < 4
\* set_ver_align has returned.
AlignSet == pc = "loaded" /\ result.type = "Unit"

\* C24 as stated: for every requested alignment of 0 to 255,
\* set_ver_align returns and leaves as the Image's alignment the smallest
\* multiple of 4 that is not below the request, whatever alignment the
\* items let guess.
C24_Original ==
    /\ pc # "panicked"
    /\ AlignSet => image.align = NextMultipleOf4(result.align)

\* The same for the requests of 0 to 252, with the warning printed
\* exactly when the guess differs from the alignment stored; a request of
\* 253 to 255 ends in a panic or in an alignment of 0.
C24_UpTo252 ==
    /\ AlignSet =>
          /\ image.version = result.ver
          /\ result.align <= 252 =>
                image.align = NextMultipleOf4(result.align)
          /\ result.align > 252 => image.align = 0
          /\ result.warned <=> (guess_align_size(image.items) # image.align)
    /\ pc = "panicked" => result = Panic

\* C29 as stated: the encoder never divides by zero, as every Image that
\* set_ver_align has changed has an alignment of 1 or more when
\* append_item rounds an offset up to it.
C29_Original ==
    /\ pc = "appending" => image.align >= 1
    /\ pc = "write_failed" => result # Panic

\* ------------------------------------------------------------------
\* The name fields.

\* The name that was encoded and the length of its field.
EncodedName == image.items[1].stem
FieldLen == SizeItemType(image.version)
\* The bytes of a field before its first zero byte.
BeforeFirstZero(field) == SubSeq(field, 1, CStrLen(field, 1))
\* A name field has been written from a name, or such a field read back.
NameEncoded == pc \in {"encoded", "round_trip"}
\* A name has been read from a field.
NameDecoded == pc \in {"round_trip", "field_read"}
\* bytes are well-formed UTF-8.
WellFormed(bytes) == to_string_lossy(bytes) = bytes

\* What encoding a name leaves in its field.
EncodedField ==
    NameEncoded =>
        LET len == Min(Len(EncodedName), FieldLen - 1)
        IN  /\ Len(file) = FieldLen
            /\ SubSeq(file, 1, len) = SubSeq(EncodedName, 1, len)
            /\ \A i \in (len + 1)..FieldLen : file[i] = 0
            /\ file[FieldLen] = 0

\* A name shorter than its field comes back unchanged.
NameRoundTrip ==
    pc = "round_trip" /\ Len(EncodedName) < FieldLen
        => result.value = EncodedName

\* C25 as stated: an encoded field holds the first min(length, LEN - 1)
\* bytes of the name and zeros after them, a name shorter than LEN comes
\* back unchanged, and the name decoded from any field is the bytes before
\* the field's first zero byte, so never bytes from outside the field.
C25_Original ==
    /\ EncodedField
    /\ NameRoundTrip
    /\ NameDecoded =>
          /\ result.value = BeforeFirstZero(file)
          /\ Len(result.value) <= FieldLen

\* The same with decoding restricted to the fields that hold a zero byte
\* and well-formed UTF-8 before it; of the others, an ill-formed part comes
\* back as U+FFFD and a field with no zero byte is read past its end.
C25_TerminatedFields ==
    /\ EncodedField
    /\ NameRoundTrip
    /\ NameDecoded =>
          LET name == BeforeFirstZero(file)
          IN  /\ Len(name) < FieldLen /\ WellFormed(name)
                    => result.value = name
              /\ Len(name) < FieldLen
                    => result.value = to_string_lossy(name)
              /\ Len(name) = FieldLen
                    => \E beyond \in Beyond :
                          result.value = to_string_lossy(file \o beyond)

\* ------------------------------------------------------------------
\* verify and the essential items.

\* The lookup of the essential items, which verify makes first, fails.
EssentialsFail == find_essentials(image.items) # Ok
\* verify has returned for an Image whose essential items are not all
\* there once.
VerifiedWithoutEssentials == pc = "verify_done" /\ EssentialsFail

\* C26 as stated: for an Image in which an essential item is missing or
\* there twice, verify returns Ok whenever every digest an item carries is
\* that of the item's data.
C26_Original ==
    VerifiedWithoutEssentials /\ Mismatching = {} => result = Ok

\* The same for the Images in which no item that carries a digest has a
\* brace in its name: the digests alone decide what verify returns, never
\* the error of the lookup of the essential items.
C26_PlainNames ==
    VerifiedWithoutEssentials
        /\ (\A i \in HasDigest : ~HasBrace(image.items[i]))
        => /\ result = (IF Mismatching # {} THEN Illegal ELSE Ok)
           /\ result # find_essentials(image.items)

\* ------------------------------------------------------------------
\* The byte ranges of the records of a written file.

\* Record i of the table of the written file, as the file holds it.
WrittenRecord(i) ==
    RawItemInfo_from(Slice(file, 64 + (i - 1) * RecordSize, RecordSize),
                     SizeItemType(image.version))
WrittenCount == LeValue(Slice(file, 24, 4))
TableSize == 64 + RecordSize * WrittenCount
\* PARTITION items whose data append_item stored.
StoredPartitions ==
    {k \in 1..Len(applog) :
        IsPartition(k) /\ ItemRecord(k).is_backup_item = 0}

EncodeFailed == pc = "write_failed" /\ result.type = "ImageError"
\* A step of try_write_file leaves the Image as it is, and the file at the
\* output path too unless it is the step that writes the finished image.
WriteStep ==
    /\ image' = image
    /\ pc' # "written" => file' = file

\* C30: no step of try_write_file changes the Image, and none but the
\* write of the finished image touches the file at the output path, so
\* when the encoder fails (UnexpectedItem, DuplicatedItem, MissingItem,
\* IllegalVerify, SizeMismatch) the file is as it was; a failed call has
\* produced no image to write.
C30_AtomicFailure ==
    /\ [][WriteStep]_vars
    /\ [](EncodeFailed => file \in {<<>>, OLD_FILE})
    /\ [](pc = "written" => result = Ok)

\* The encoder has failed with IllegalVerify after it appended an item,
\* and the file that was at the output path is still there.
C30_Witness ==
    /\ EncodeFailed
    /\ result.kind = "IllegalVerify"
    /\ Len(applog) >= 2
    /\ file = OLD_FILE

====
